---------------------------- MODULE Spec2Model ----------------------------
(***************************************************************************)
(* Narrative decay and analyst credibility engine of marketscholar300.     *)
(*                                                                         *)
(* Numbers.  Sentiments and prices are integers; a Python float result     *)
(* that the code rounds is kept as a scaled integer:                       *)
(*   decay rate         round(x, 4)  ->  ten-thousandths  (field v)        *)
(*   half life          round(x, 2)  ->  hundredths       (field v)        *)
(*   price correlation  round(x, 4)  ->  ten-thousandths  (field v)        *)
(* An Optional[float] is a record [ok, v]: ok = FALSE is Python's None.    *)
(* Dates are whole days counted from an arbitrary day 0.                   *)
(***************************************************************************)
EXTENDS Integers, Sequences, FiniteSets, TLC

(***************************************************************************)
(* Bounds of the model.                                                    *)
(***************************************************************************)
\* free datapoints of an engine history (the constructor's point included)
MaxFree == 3
\* lengths of the run of identical daily datapoints that may end a history
ShortRun == 6
LongRun == 30

\* sentiments fed to the engine: the article sentiment is clamped to -100..100
\* (marketscholar_scraper.py:450-455)
Sentiments == {-10, 0, 15, 20, 65, 100}
Prices == {1, 2}

(***************************************************************************)
(* Arithmetic helpers.                                                     *)
(***************************************************************************)
Abs(x) == IF x < 0 THEN -x ELSE x

\* Python's round(): num/den to the nearest integer, ties to the even one
RoundHalfEven(num, den) ==
    LET q == num \div den
        r == num - q * den
    IN  IF 2 * r < den THEN q
        ELSE IF 2 * r > den THEN q + 1
        ELSE IF q % 2 = 0 THEN q ELSE q + 1

RECURSIVE SumSeq(_)
SumSeq(s) == IF s = <<>> THEN 0 ELSE Head(s) + SumSeq(Tail(s))

RECURSIVE SumProd(_, _)
SumProd(s, t) ==
    IF s = <<>> THEN 0 ELSE Head(s) * Head(t) + SumProd(Tail(s), Tail(t))

Last(s) == s[Len(s)]

\* Naturals beyond 32 bits: little-endian digit sequences in base 10000,
\* without leading zero digits.
BNBase == 100 * 100

RECURSIVE BN(_)
BN(n) == IF n = 0 THEN <<>> ELSE <<n % BNBase>> \o BN(n \div BNBase)

RECURSIVE BNAddC(_, _, _)
BNAddC(a, b, c) ==
    IF a = <<>> /\ b = <<>>
    THEN IF c = 0 THEN <<>> ELSE <<c>>
    ELSE LET x == IF a = <<>> THEN 0 ELSE Head(a)
             y == IF b = <<>> THEN 0 ELSE Head(b)
             s == x + y + c
         IN  <<s % BNBase>> \o
             BNAddC(IF a = <<>> THEN <<>> ELSE Tail(a),
                    IF b = <<>> THEN <<>> ELSE Tail(b), s \div BNBase)

RECURSIVE BNMulDigit(_, _, _)
BNMulDigit(a, d, c) ==
    IF a = <<>>
    THEN IF c = 0 THEN <<>> ELSE <<c>>
    ELSE LET s == Head(a) * d + c
         IN  <<s % BNBase>> \o BNMulDigit(Tail(a), d, s \div BNBase)

RECURSIVE BNMul(_, _)
BNMul(a, b) ==
    IF a = <<>> \/ b = <<>> THEN <<>>
    ELSE LET low == IF Head(b) = 0 THEN <<>> ELSE BNMulDigit(a, Head(b), 0)
             high == BNMul(a, Tail(b))
         IN  BNAddC(low, IF high = <<>> THEN <<>> ELSE <<0>> \o high, 0)

RECURSIVE BNLessFrom(_, _, _)
BNLessFrom(a, b, i) ==
    IF i = 0 THEN FALSE
    ELSE IF a[i] # b[i] THEN a[i] < b[i]
    ELSE BNLessFrom(a, b, i - 1)

BNLess(a, b) ==
    IF Len(a) # Len(b) THEN Len(a) < Len(b) ELSE BNLessFrom(a, b, Len(a))

(***************************************************************************)
(* NarrativeDecayEngine (decay_engine.py).  An engine e is the object's    *)
(* fields: s0, p0, t0, sentiment_history, price_history, dates.            *)
(***************************************************************************)
None == [ok |-> FALSE, v |-> 0]
Some(x) == [ok |-> TRUE, v |-> x]

\* math.log in units of 1e-5, for the arguments 1..100
LnE5 ==
    << 0, 69315, 109861, 138629, 160944, 179176, 194591, 207944, 219722, 230259,
       239790, 248491, 256495, 263906, 270805, 277259, 283321, 289037, 294444, 299573,
       304452, 309104, 313549, 317805, 321888, 325810, 329584, 333220, 336730, 340120,
       343399, 346574, 349651, 352636, 355535, 358352, 361092, 363759, 366356, 368888,
       371357, 373767, 376120, 378419, 380666, 382864, 385015, 387120, 389182, 391202,
       393183, 395124, 397029, 398898, 400733, 402535, 404305, 406044, 407754, 409434,
       411087, 412713, 414313, 415888, 417439, 418965, 420469, 421951, 423411, 424850,
       426268, 427667, 429046, 430407, 431749, 433073, 434381, 435671, 436945, 438203,
       439445, 440672, 441884, 443082, 444265, 445435, 446591, 447734, 448864, 449981,
       451086, 452179, 453260, 454329, 455388, 456435, 457471, 458497, 459512, 460517 >>
\* math.log(2) in units of 1e-5
Ln2E5 == 69315

\* None where a number is expected (a null column, a missing dict key); the
\* numbers of the model are never 0 where NULL can stand
NULL == 0

\* thresholds of the classifier and of the exhaustion prediction
ExhaustionThreshold == 20
FailedCorrelation == -5000
ValidatedCorrelation == 7000
ValidatedSentiment == 70
ValidatedDays == 30

NewEngine(initial_sentiment, initial_price, genesis_date) ==
    [s0 |-> initial_sentiment, p0 |-> initial_price, t0 |-> genesis_date,
     sentiment_history |-> <<initial_sentiment>>,
     price_history |-> <<initial_price>>,
     dates |-> <<genesis_date>>]

add_datapoint(e, sentiment, price, date) ==
    [e EXCEPT !.sentiment_history = Append(@, sentiment),
              !.price_history = Append(@, price),
              !.dates = Append(@, date)]

DecayRateShort == Some(0)

Max(a, b) == IF a >= b THEN a ELSE b

calculate_decay_rate(e) ==
    IF Len(e.sentiment_history) < 2
    THEN DecayRateShort
    ELSE LET current_sentiment == Last(e.sentiment_history)
             days_elapsed == Len(e.sentiment_history) - 1
         IN  Some(RoundHalfEven((e.s0 - current_sentiment) * 10000,
                                Max(days_elapsed, 1)))

\* HalfLifeOf with the sign of lambda_const lost (abs of the logarithm)
HalfLifeOfAbsLog(s0, current_sentiment, days_elapsed) ==
    LET neg_log == LnE5[s0] - LnE5[current_sentiment]
    IN  IF neg_log = 0
        THEN None
        ELSE Some(RoundHalfEven(100 * Ln2E5 * days_elapsed, Abs(neg_log)))

HalfLifeOf(s0, current_sentiment, days_elapsed) ==
    LET \* -math.log(current_sentiment / s0), units of 1e-5; lambda_const is
        \* this over days_elapsed and has its sign
        neg_log == LnE5[s0] - LnE5[current_sentiment]
    IN  IF neg_log <= 0
        THEN None
        ELSE Some(RoundHalfEven(100 * Ln2E5 * days_elapsed, neg_log))

calculate_half_life(e) ==
    IF Len(e.sentiment_history) < 2
    THEN None
    ELSE LET current_sentiment == Last(e.sentiment_history)
             days_elapsed == Len(e.sentiment_history) - 1
         IN  IF current_sentiment <= 0 \/ e.s0 <= 0
             THEN None
             ELSE HalfLifeOf(e.s0, current_sentiment, days_elapsed)

\* Smallest k in lo..hi with (2k+1)^2 * b > a; hi when there is none below it.
RECURSIVE RoundSearch(_, _, _, _)
RoundSearch(a, b, lo, hi) ==
    IF lo >= hi THEN hi
    ELSE LET mid == (lo + hi) \div 2
         IN  IF BNLess(a, BNMul(BN((2 * mid + 1) * (2 * mid + 1)), b))
             THEN RoundSearch(a, b, lo, mid)
             ELSE RoundSearch(a, b, mid + 1, hi)

\* the rounding of PearsonE4: a is 4e8 * cov^2, b is vs * vp, up is the
\* smallest k with (k + 1/2)^2 > 1e8 * cov^2 / (vs * vp)
PearsonTies(cov, a, b, up) ==
    LET tie == up > 0 /\ a = BNMul(BN((2 * up - 1) * (2 * up - 1)), b)
        m == IF tie /\ up % 2 = 1 THEN up - 1 ELSE up
    IN  IF cov < 0 THEN -m ELSE m

PearsonRounded(cov, a, b) == PearsonTies(cov, a, b, RoundSearch(a, b, 0, 10000))

\* round(10000 * cov / sqrt(vs * vp)) for vs, vp > 0: the Pearson coefficient
\* in ten-thousandths, as round(float(correlation), 4) leaves it
PearsonE4(cov, vs, vp) ==
    PearsonRounded(cov, BNMul(BN(400000000), BNMul(BN(Abs(cov)), BN(Abs(cov)))),
                   BNMul(BN(vs), BN(vp)))

NoCorrelation == [ok |-> FALSE, nan |-> FALSE, v |-> 0]

\* np.corrcoef(sentiment_history, price_history)[0, 1]; a series without
\* variance gives nan, which is not None and compares False with everything
calculate_price_correlation(e) ==
    IF Len(e.sentiment_history) < 3
    THEN NoCorrelation
    ELSE IF \E i \in DOMAIN e.price_history : e.price_history[i] = NULL
    THEN \* np.corrcoef raises on a None price; the except returns None
         NoCorrelation
    ELSE LET n == Len(e.sentiment_history)
             sx == SumSeq(e.sentiment_history)
             sy == SumSeq(e.price_history)
             cov == n * SumProd(e.sentiment_history, e.price_history) - sx * sy
             vs == n * SumProd(e.sentiment_history, e.sentiment_history) - sx * sx
             vp == n * SumProd(e.price_history, e.price_history) - sy * sy
         IN  IF vs = 0 \/ vp = 0
             THEN [ok |-> TRUE, nan |-> TRUE, v |-> 0]
             ELSE [ok |-> TRUE, nan |-> FALSE, v |-> PearsonE4(cov, vs, vp)]

\* a date with a fraction of a day: day + num / den, 0 <= num < den
NoDate == [ok |-> FALSE, day |-> 0, num |-> 0, den |-> 1]
WholeDate(d) == [ok |-> TRUE, day |-> d, num |-> 0, den |-> 1]

\* date + timedelta(days = num / den), before timedelta's rounding to the
\* microsecond
DatePlus(date, num, den) ==
    [ok |-> TRUE, day |-> date + num \div den, num |-> num % den, den |-> den]

\* predict_exhaustion_date counting the remaining days from the genesis date
predict_exhaustion_date_from_genesis(e) ==
    LET decay_rate == calculate_decay_rate(e).v
        to_go == Last(e.sentiment_history) - ExhaustionThreshold
    IN  IF decay_rate <= 0
        THEN NoDate
        ELSE IF to_go <= 0
        THEN WholeDate(e.t0)
        ELSE DatePlus(e.t0, to_go * 10000, decay_rate)

\* predict_exhaustion_date giving the date of the latest datapoint, not the
\* genesis date, for a narrative that is exhausted already
predict_exhaustion_date_from_latest(e) ==
    LET decay_rate == calculate_decay_rate(e).v
        to_go == Last(e.sentiment_history) - ExhaustionThreshold
    IN  IF decay_rate <= 0
        THEN NoDate
        ELSE IF to_go <= 0
        THEN WholeDate(Last(e.dates))
        ELSE DatePlus(Last(e.dates), to_go * 10000, decay_rate)

predict_exhaustion_date(e) ==
    LET decay_rate == calculate_decay_rate(e).v
        current_sentiment == Last(e.sentiment_history)
        \* days_to_exhaustion = 10000 * to_go / decay_rate
        to_go == current_sentiment - ExhaustionThreshold
    IN  IF decay_rate <= 0
        THEN NoDate
        ELSE IF to_go <= 0
        THEN WholeDate(e.t0)
        ELSE DatePlus(Last(e.dates), to_go * 10000, decay_rate)

\* the rules of classify_status with the FAILED rule tried before the
\* EXHAUSTED rule
StatusRulesFailedFirst(current_sentiment, days_elapsed, correlation) ==
    LET known == correlation.ok /\ ~correlation.nan
    IN  IF known /\ correlation.v < FailedCorrelation
        THEN "FAILED"
        ELSE IF current_sentiment < ExhaustionThreshold
        THEN "EXHAUSTED"
        ELSE IF known /\ correlation.v > ValidatedCorrelation
                /\ current_sentiment > ValidatedSentiment
                /\ days_elapsed > ValidatedDays
        THEN "VALIDATED"
        ELSE "ACTIVE"

\* the rules of classify_status, in its order
StatusRules(current_sentiment, days_elapsed, correlation) ==
    LET known == correlation.ok /\ ~correlation.nan
    IN  IF current_sentiment < ExhaustionThreshold
        THEN "EXHAUSTED"
        ELSE IF known /\ correlation.v < FailedCorrelation
        THEN "FAILED"
        ELSE IF known /\ correlation.v > ValidatedCorrelation
                /\ current_sentiment > ValidatedSentiment
                /\ days_elapsed > ValidatedDays
        THEN "VALIDATED"
        ELSE "ACTIVE"

classify_status(e) ==
    StatusRules(Last(e.sentiment_history), Len(e.sentiment_history) - 1,
                calculate_price_correlation(e))

\* exhaustion_confidence is left out of the record: nothing stored derives
\* from it (update_narrative_metrics does not write it)
get_metrics(e) ==
    [decay_rate |-> calculate_decay_rate(e),
     half_life |-> calculate_half_life(e),
     price_correlation |-> calculate_price_correlation(e),
     status |-> classify_status(e),
     predicted_exhaustion_date |-> predict_exhaustion_date(e),
     days_elapsed |-> Len(e.sentiment_history) - 1,
     current_sentiment |-> Last(e.sentiment_history),
     sentiment_change |-> Last(e.sentiment_history) - e.s0]

(***************************************************************************)
(* State.                                                                  *)
(***************************************************************************)
VARIABLES
    analysts,       \* table analysts: the rows in insertion order (id = index)
    workers,        \* the process_analyst_article invocations under way, per
                    \* worker: pc and the locals of _get_or_create_analyst
    engine,         \* a NarrativeDecayEngine object
    metrics,        \* <<the dict the last get_metrics() call returned>>, or <<>>
    now,            \* datetime.now(), in days
    final_close,    \* the market: publish day -> last close of the 90 days after it
    analyst_calls,  \* table analyst_calls: the rows in insertion order (id = index)
    evaluation,     \* the evaluate_analyst_calls runs: pc and the calls still to do
    narratives,     \* table narratives: the rows in insertion order (id = index)
    narrative_snapshots,        \* table narrative_snapshots: per narrative id,
                                \* its rows in insertion order
    narrative_decay_metrics,    \* table narrative_decay_metrics: the rows in
                                \* insertion order
    scraper,        \* run_daily_scrape: pc, the article being saved, and the
                    \* narratives still to do in its decay section
    daily,          \* run_daily_update: pc, the narratives selected and those
                    \* of them still to do
    analyst_scores, \* table analyst_scores: the rows in insertion order
    feeds,          \* what the outside answers: yfinance for the ticker,
                    \* the articles and narratives lookups
    scored,         \* the last call of update_analyst_scores: the calculator
                    \* and its arguments
    scoring         \* calculate_all_analyst_scores: pc and the analysts still
                    \* to do

engineVars == <<engine, metrics>>
callVars == <<final_close, analyst_calls, evaluation>>
storeVars == <<narratives, narrative_snapshots, narrative_decay_metrics,
               scraper, daily>>
scoreVars == <<analyst_scores, feeds, scored, scoring>>
analystVars == <<analysts, workers>>
vars == <<engine, metrics, now, final_close, analyst_calls, evaluation,
          narratives, narrative_snapshots, narrative_decay_metrics,
          scraper, daily, analyst_scores, feeds, scored,
          scoring, analysts, workers>>

\* the components a specification does not exercise stay as constructed
EngineIdle == engine = NewEngine(0, 1, 0) /\ metrics = <<>>
CallsIdle ==
    /\ final_close = <<>>
    /\ analyst_calls = <<>>
    /\ evaluation = [r \in {1, 2} |-> [pc |-> "idle", todo |-> <<>>]]
StoreIdle ==
    /\ narratives = <<>>
    /\ narrative_snapshots = <<>>
    /\ narrative_decay_metrics = <<>>
    /\ scraper = [pc |-> "idle", narrative_id |-> NULL, sentiment |-> 0,
                  todo |-> <<>>]
    /\ daily = [pc |-> "idle", narratives |-> <<>>, todo |-> <<>>]
\* nothing is known outside: yfinance has no info, no history and no
\* financials for the ticker, the call has no article, the ticker no narrative
NoMarketData ==
    [currentPrice |-> 0, trailingEps |-> 0,
     rows |-> 0, price_30d_ago |-> 0, price_current |-> 0, revenue |-> <<>>,
     article |-> "no_id", full_text |-> <<>>,
     narrative |-> "none", articles |-> <<>>]
ScoresIdle ==
    /\ analyst_scores = <<>>
    /\ feeds = NoMarketData
    /\ scored = [by |-> "none", analyst_id |-> NULL, ticker |-> "null"]
    /\ scoring = [pc |-> "idle", todo |-> <<>>]

\* the workers that run process_analyst_article
Workers == {1, 2}

AnalystsIdle ==
    /\ analysts = <<>>
    /\ workers = [w \in Workers |-> [pc |-> "idle", name |-> "null",
                                     firm |-> "null", analyst_id |-> NULL]]

(***************************************************************************)
(* The engine on its own: a history is built datapoint by datapoint, one   *)
(* per day, and get_metrics is called on it.                               *)
(***************************************************************************)
EngineInit ==
    /\ engine \in {NewEngine(s, p, 0) : s \in Sentiments, p \in Prices}
    /\ metrics = <<>>
    /\ now = 0
    /\ CallsIdle
    /\ StoreIdle
    /\ ScoresIdle
    /\ AnalystsIdle

AddDatapoint(sentiment, price) ==
    /\ Len(engine.sentiment_history) < MaxFree
    /\ engine' = add_datapoint(engine, sentiment, price, Last(engine.dates) + 1)
    /\ metrics' = <<>>
    /\ UNCHANGED <<now, callVars, storeVars, scoreVars, analystVars>>

RECURSIVE Repeated(_, _, _)
\* e after k more daily datapoints equal to its latest one
Repeated(e, k, day) ==
    IF k = 0 THEN e
    ELSE Repeated(add_datapoint(e, Last(e.sentiment_history),
                                Last(e.price_history), day), k - 1, day + 1)

RunLengths == {ShortRun, LongRun - 1, LongRun}

AddRun(k) ==
    /\ Len(engine.sentiment_history) <= MaxFree
    /\ engine' = Repeated(engine, k, Last(engine.dates) + 1)
    /\ metrics' = <<>>
    /\ UNCHANGED <<now, callVars, storeVars, scoreVars, analystVars>>

GetMetrics ==
    /\ metrics = <<>>
    /\ metrics' = <<get_metrics(engine)>>
    /\ UNCHANGED engine
    /\ UNCHANGED <<now, callVars, storeVars, scoreVars, analystVars>>

EngineNext ==
    \/ \E s \in Sentiments, p \in Prices : AddDatapoint(s, p)
    \/ \E k \in RunLengths : AddRun(k)
    \/ GetMetrics

SpecEngine == EngineInit /\ [][EngineNext]_vars

(***************************************************************************)
(* Properties of the engine (checked under SpecEngine).                    *)
(***************************************************************************)
CurrentSentiment == Last(engine.sentiment_history)
DaysElapsed == Len(engine.sentiment_history) - 1
Returned == metrics # <<>>

\* C1: the status get_metrics reports follows the rules in strict priority
\* order: EXHAUSTED whenever the current sentiment is below 20, whatever the
\* correlation and the days elapsed; otherwise FAILED when a correlation is
\* available and below -0.5; otherwise VALIDATED when the correlation is above
\* 0.7, the current sentiment above 70 and more than 30 days have elapsed;
\* otherwise ACTIVE.
C1_StrictPriority ==
    Returned =>
        LET c == metrics[1].price_correlation
            available == c.ok /\ ~c.nan
        IN  metrics[1].status =
                IF CurrentSentiment < 20 THEN "EXHAUSTED"
                ELSE IF available /\ c.v < -5000 THEN "FAILED"
                ELSE IF available /\ c.v > 7000 /\ CurrentSentiment > 70
                        /\ DaysElapsed > 30 THEN "VALIDATED"
                ELSE "ACTIVE"

\* sentiment 15 with a correlation of -0.9 or below is reported EXHAUSTED
C1_Witness ==
    /\ Returned
    /\ CurrentSentiment = 15
    /\ metrics[1].price_correlation.ok
    /\ metrics[1].price_correlation.v <= -9000
    /\ metrics[1].status = "EXHAUSTED"

\* C6: calculate_half_life returns None whenever the history has fewer than 2
\* points, the initial sentiment is <= 0, the current sentiment is <= 0, or the
\* current sentiment is not strictly below the initial one; a half-life it
\* does return is > 0.
C6_HalfLifeUndefined ==
    Returned =>
        LET half_life == metrics[1].half_life
        IN  /\ (\/ Len(engine.sentiment_history) < 2
                \/ engine.s0 <= 0
                \/ CurrentSentiment <= 0
                \/ CurrentSentiment >= engine.s0) => ~half_life.ok
            /\ half_life.ok => half_life.v > 0

\* a rising history of at least 2 points with positive sentiments: no half-life
C6_Witness ==
    /\ Returned
    /\ Len(engine.sentiment_history) >= 2
    /\ engine.s0 > 0
    /\ CurrentSentiment > engine.s0
    /\ ~metrics[1].half_life.ok

\* C7: with no day elapsed (only the initial point) calculate_decay_rate returns
\* a 'no metric' sentinel, which a caller can tell from a rate computed as zero.
C7_NoMetricSentinel ==
    (Returned /\ Len(engine.sentiment_history) < 2) => ~metrics[1].decay_rate.ok

\* C8: predict_exhaustion_date returns no date when the decay rate is <= 0; the
\* genesis date when the rate is > 0 and (current sentiment - 20) / rate <= 0;
\* otherwise the date of the latest datapoint plus (current sentiment - 20) /
\* rate days.
C8_ExhaustionDate ==
    Returned =>
        LET rate == metrics[1].decay_rate.v
            date == metrics[1].predicted_exhaustion_date
        IN  /\ rate <= 0 => ~date.ok
            /\ (rate > 0 /\ CurrentSentiment <= 20) =>
                   (date.ok /\ date.day = engine.t0 /\ date.num = 0)
            /\ (rate > 0 /\ CurrentSentiment > 20) =>
                   /\ date.ok
                   /\ date.den = rate
                   /\ date.num >= 0
                   /\ date.num < rate
                   /\ (date.day - Last(engine.dates)) * rate + date.num
                          = (CurrentSentiment - 20) * 10000

\* S0 = 100 and 7 days at 5 points a day: 9 days after the last datapoint
C8_Witness ==
    /\ Returned
    /\ engine.s0 = 100
    /\ DaysElapsed = 7
    /\ CurrentSentiment = 65
    /\ metrics[1].decay_rate.v = 50000
    /\ metrics[1].predicted_exhaustion_date.ok
    /\ metrics[1].predicted_exhaustion_date.day = Last(engine.dates) + 9
    /\ metrics[1].predicted_exhaustion_date.num = 0

(***************************************************************************)
(* AnalystTracker (analyst_tracker.py): the analyst_calls table, call      *)
(* detection and the maturation job evaluate_analyst_calls.  A run of the  *)
(* job is a select followed by one step per selected call; two runs may    *)
(* overlap.                                                                *)
(***************************************************************************)
\* rows of analyst_calls
MaxCalls == 2
\* the clock advances TickDays at a time, up to MaxNow
TickDays == 30
MaxNow == 120

DefaultDaysAgo == 90
EvaluationWindow == 90
MinRows == 30
DirectionalPct == 5
BullishAbove == 30
BearishBelow == -30

Runs == {1, 2}
PublishDays == {0}
SentimentScores == {-50, 0, 50}
PublishPrices == {NULL, 100}
Closes == {94, 95, 105, 106}
DaysAgoChoices == {45, DefaultDaysAgo}

Min(a, b) == IF a <= b THEN a ELSE b

CallSentiment(sentiment_score) ==
    IF sentiment_score > BullishAbove THEN "BULLISH"
    ELSE IF sentiment_score < BearishBelow THEN "BEARISH"
    ELSE "NEUTRAL"

\* call_data of process_analyst_article (the columns the maturation job and
\* the scores read)
NewCall(published_at, sentiment_score, current_price) ==
    [publish_datetime |-> published_at,
     sentiment |-> CallSentiment(sentiment_score),
     price_at_publish |-> current_price,
     outcome_status |-> "PENDING",
     directional_correct |-> "null",
     price_90d_later |-> NULL]

\* rows of stock.history(start, end): about 5 trading days in 7
TradingRows(days) == (days * 5) \div 7

\* what stock.history(start = publish, end = publish + 90) can give at the
\* time now: NULL stands for an empty or too short history (always possible:
\* the feed is external); otherwise its last close, which is the live price
\* while the window is still open and a fact of the market once it is over
HistOutcomes(call) ==
    LET start == call.publish_datetime
        end == start + EvaluationWindow
    IN  {NULL} \cup
        IF TradingRows(Min(now, end) - start) < MinRows THEN {}
        ELSE IF now >= end THEN {final_close[start]}
        ELSE Closes

\* DirectionalCorrect with the 5% bounds taken inclusive for every sentiment
DirectionalCorrectInclusive(sentiment, price_at_publish, price_90d_later) ==
    LET change == (price_90d_later - price_at_publish) * 100
        bound == DirectionalPct * price_at_publish
    IN  \/ sentiment = "BULLISH" /\ change >= bound
        \/ sentiment = "BEARISH" /\ change <= -bound
        \/ sentiment = "NEUTRAL" /\ Abs(change) <= bound

\* DirectionalCorrect with a NEUTRAL call correct strictly inside the bounds
DirectionalCorrectStrict(sentiment, price_at_publish, price_90d_later) ==
    LET change == (price_90d_later - price_at_publish) * 100
        bound == DirectionalPct * price_at_publish
    IN  \/ sentiment = "BULLISH" /\ change > bound
        \/ sentiment = "BEARISH" /\ change < -bound
        \/ sentiment = "NEUTRAL" /\ Abs(change) < bound

\* price_change_pct = change / price_at_publish, compared with +-5
DirectionalCorrect(sentiment, price_at_publish, price_90d_later) ==
    LET change == (price_90d_later - price_at_publish) * 100
        bound == DirectionalPct * price_at_publish
    IN  \/ sentiment = "BULLISH" /\ change > bound
        \/ sentiment = "BEARISH" /\ change < -bound
        \/ sentiment = "NEUTRAL" /\ Abs(change) <= bound

\* EvaluatedRow writing directional_correct only for a correct call
EvaluatedRowOnlyTrue(call, correct, close) ==
    [call EXCEPT !.outcome_status = "EVALUATED",
                 !.directional_correct = IF correct THEN "true" ELSE @,
                 !.price_90d_later = close]

\* the update of evaluate_analyst_calls
EvaluatedRow(call, correct, close) ==
    [call EXCEPT !.outcome_status = "EVALUATED",
                 !.directional_correct = IF correct THEN "true" ELSE "false",
                 !.price_90d_later = close]

RECURSIVE PendingBefore(_, _)
\* ids of the PENDING calls published before cutoff, from id i on
PendingBefore(cutoff, i) ==
    IF i > Len(analyst_calls) THEN <<>>
    ELSE (IF /\ analyst_calls[i].outcome_status = "PENDING"
             /\ analyst_calls[i].publish_datetime < cutoff
          THEN <<i>> ELSE <<>>) \o PendingBefore(cutoff, i + 1)

CallsInit ==
    /\ now = 0
    /\ final_close \in [PublishDays -> Closes]
    /\ analyst_calls = <<>>
    /\ evaluation = [r \in Runs |-> [pc |-> "idle", todo |-> <<>>]]
    /\ EngineIdle
    /\ StoreIdle
    /\ ScoresIdle
    /\ AnalystsIdle

process_analyst_article(published_at, sentiment_score, current_price) ==
    /\ Len(analyst_calls) < MaxCalls
    /\ published_at <= now
    /\ analyst_calls' =
           Append(analyst_calls, NewCall(published_at, sentiment_score, current_price))
    /\ UNCHANGED <<now, final_close, evaluation>>
    /\ UNCHANGED <<engineVars, storeVars, scoreVars, analystVars>>

StartEvaluation(r, days_ago) ==
    /\ evaluation[r].pc = "idle"
    /\ evaluation' = [evaluation EXCEPT
           ![r] = [pc |-> "loop", todo |-> PendingBefore(now - days_ago, 1)]]
    /\ UNCHANGED <<now, final_close, analyst_calls>>
    /\ UNCHANGED <<engineVars, storeVars, scoreVars, analystVars>>

\* one iteration of the loop, on the history stock.history gave: the call is
\* the first still to do; a short history and a call without price_at_publish
\* (the subtraction raises) leave the row alone, anything else updates it by id
EvaluateCallOn(r, hist) ==
    /\ evaluation[r].pc = "loop"
    /\ evaluation[r].todo # <<>>
    /\ hist \in HistOutcomes(analyst_calls[Head(evaluation[r].todo)])
    /\ LET id == Head(evaluation[r].todo)
           call == analyst_calls[id]
       IN  analyst_calls' =
               IF hist = NULL \/ call.price_at_publish = NULL
               THEN analyst_calls
               ELSE [analyst_calls EXCEPT ![id] =
                        EvaluatedRow(@, DirectionalCorrect(call.sentiment,
                            call.price_at_publish, hist), hist)]
    /\ evaluation' = [evaluation EXCEPT ![r].todo = Tail(@)]
    /\ UNCHANGED <<now, final_close>>
    /\ UNCHANGED <<engineVars, storeVars, scoreVars, analystVars>>

EvaluateCall(r) == \E hist \in Closes \cup {NULL} : EvaluateCallOn(r, hist)

FinishEvaluation(r) ==
    /\ evaluation[r].pc = "loop"
    /\ evaluation[r].todo = <<>>
    /\ evaluation' = [evaluation EXCEPT ![r].pc = "idle"]
    /\ UNCHANGED <<now, final_close, analyst_calls>>
    /\ UNCHANGED <<engineVars, storeVars, scoreVars, analystVars>>

Tick ==
    /\ now + TickDays <= MaxNow
    /\ now' = now + TickDays
    /\ UNCHANGED <<final_close, analyst_calls, evaluation>>
    /\ UNCHANGED <<engineVars, storeVars, scoreVars, analystVars>>

CallsNext ==
    \/ \E d \in PublishDays, s \in SentimentScores, p \in PublishPrices :
           process_analyst_article(d, s, p)
    \/ \E r \in Runs, days_ago \in DaysAgoChoices : StartEvaluation(r, days_ago)
    \/ \E r \in Runs : EvaluateCall(r)
    \/ \E r \in Runs : FinishEvaluation(r)
    \/ Tick

SpecCalls == CallsInit /\ [][CallsNext]_vars

(***************************************************************************)
(* Properties of the call store (checked under SpecCalls).                 *)
(***************************************************************************)
CallIds == 1..Len(analyst_calls)

\* C3: a call is created PENDING, its only status transition is PENDING ->
\* EVALUATED, and once it is EVALUATED no step of any later or overlapping run
\* changes its outcome_status or its directional_correct.
C3_WriteOnce ==
    [][\A id \in CallIds :
          /\ id \notin DOMAIN analyst_calls' \/
                 analyst_calls'[id].outcome_status # analyst_calls[id].outcome_status
             => /\ analyst_calls[id].outcome_status = "PENDING"
                /\ analyst_calls'[id].outcome_status = "EVALUATED"
          /\ analyst_calls[id].outcome_status = "EVALUATED"
             => /\ analyst_calls'[id].outcome_status = "EVALUATED"
                /\ analyst_calls'[id].directional_correct
                       = analyst_calls[id].directional_correct]_vars

\* C4: in every state of the store a PENDING call has directional_correct
\* unset (null) and an EVALUATED call has it set to true or false.
C4_OutcomeWrittenTogether ==
    \A id \in CallIds :
        /\ analyst_calls[id].outcome_status \in {"PENDING", "EVALUATED"}
        /\ analyst_calls[id].outcome_status = "PENDING"
               <=> analyst_calls[id].directional_correct = "null"
        /\ analyst_calls[id].outcome_status = "EVALUATED"
               <=> analyst_calls[id].directional_correct \in {"true", "false"}

\* a call evaluated as incorrect next to a call still pending
C4_Witness ==
    \E i, j \in CallIds :
        /\ analyst_calls[i].outcome_status = "EVALUATED"
        /\ analyst_calls[i].directional_correct = "false"
        /\ analyst_calls[j].outcome_status = "PENDING"
        /\ analyst_calls[j].directional_correct = "null"

\* C5: a step that evaluates a call (writes its row) leaves it EVALUATED, with
\* directional_correct true exactly when, for the percent change c from
\* price_at_publish to the close recorded as price_90d_later, the call is
\* BULLISH and c > 5, or BEARISH and c < -5, or NEUTRAL and |c| <= 5, and false
\* otherwise.  (c > 5 is 100 * (later - at) > 5 * at, and so on.)
C5_DirectionalRule ==
    [][\A id \in CallIds :
          analyst_calls'[id] # analyst_calls[id] =>
              LET row == analyst_calls'[id]
                  at == row.price_at_publish
                  later == row.price_90d_later
                  correct ==
                      \/ row.sentiment = "BULLISH" /\ 100 * (later - at) > 5 * at
                      \/ row.sentiment = "BEARISH" /\ 100 * (later - at) < -5 * at
                      \/ row.sentiment = "NEUTRAL" /\ 100 * (later - at) <= 5 * at
                                                  /\ 100 * (later - at) >= -5 * at
              IN  /\ row.outcome_status = "EVALUATED"
                  /\ row.directional_correct = IF correct THEN "true" ELSE "false"
                  /\ row.sentiment = analyst_calls[id].sentiment
                  /\ at = analyst_calls[id].price_at_publish]_vars

\* a BULLISH call evaluated at exactly +5% (incorrect) and a NEUTRAL call
\* evaluated at exactly -5% (correct)
C5_Witness ==
    \E i, j \in CallIds :
        /\ analyst_calls[i].outcome_status = "EVALUATED"
        /\ analyst_calls[i].sentiment = "BULLISH"
        /\ analyst_calls[i].price_at_publish = 100
        /\ analyst_calls[i].price_90d_later = 105
        /\ analyst_calls[i].directional_correct = "false"
        /\ analyst_calls[j].outcome_status = "EVALUATED"
        /\ analyst_calls[j].sentiment = "NEUTRAL"
        /\ analyst_calls[j].price_at_publish = 100
        /\ analyst_calls[j].price_90d_later = 95
        /\ analyst_calls[j].directional_correct = "true"

(***************************************************************************)
(* The narrative store: tables narratives, narrative_snapshots and         *)
(* narrative_decay_metrics, written by the scraper (process_ticker: the    *)
(* upsert of the narrative, then the insert of its snapshot) and by the    *)
(* daily job (run_daily_update: a select, then update_narrative_metrics    *)
(* for each selected narrative).  The two are separate programs and may    *)
(* interleave.  Dates are whole days.                                      *)
(***************************************************************************)
\* snapshots per narrative
MaxSnapshots == 3
\* the clock runs over the days 0..MaxDay
MaxDay == 1

NarrativeNames == {"a"}
ArticleSentiments == {10, 90}
\* market_data.get('current_price'): None when the market data is missing
MarketPrices == Prices \cup {NULL}
\* hist['Close'].iloc[-1] of create_daily_snapshot, NULL for an empty hist
SnapshotCloses == Prices \cup {NULL}
SelectedStatuses == {"ACTIVE", "PENDING"}

NarrativeIds == 1..Len(narratives)

RECURSIVE FindNarrative(_, _)
\* id of the row with this narrative_name (one ticker), 0 if there is none
FindNarrative(narrative_name, i) ==
    IF i > Len(narratives) THEN 0
    ELSE IF narratives[i].narrative_name = narrative_name THEN i
    ELSE FindNarrative(narrative_name, i + 1)

\* the row of the upsert of create_or_update_narrative, from the
\* narrative_data of process_ticker
UpsertRow(narrative_name, sentiment, price) ==
    [narrative_name |-> narrative_name,
     initial_sentiment |-> sentiment,
     current_sentiment |-> sentiment,
     initial_price |-> price,
     genesis_date |-> now,
     status |-> "ACTIVE",
     days_elapsed |-> 0]

\* the row create_daily_snapshot inserts (of its columns, those that are
\* read again)
SnapshotRow(sentiment, close) ==
    [snapshot_date |-> now,
     sentiment |-> sentiment,
     price |-> close,
     sentiment_decay_pct |-> 0]

\* upsert on (ticker, narrative_name): a new row, or the existing row
\* overwritten; the snapshot of the article comes next
create_or_update_narrative(narrative_name, sentiment, price) ==
    /\ scraper.pc = "idle"
    /\ LET found == FindNarrative(narrative_name, 1)
           id == IF found = 0 THEN Len(narratives) + 1 ELSE found
       IN  /\ found # 0 => Len(narrative_snapshots[found]) < MaxSnapshots
           /\ IF found = 0
              THEN /\ narratives' =
                          Append(narratives, UpsertRow(narrative_name, sentiment, price))
                   /\ narrative_snapshots' = Append(narrative_snapshots, <<>>)
              ELSE /\ narratives' = [narratives EXCEPT
                          ![found] = UpsertRow(narrative_name, sentiment, price)]
                   /\ UNCHANGED narrative_snapshots
           /\ UNCHANGED narrative_decay_metrics
           /\ scraper' = [pc |-> "snapshot", narrative_id |-> id,
                          sentiment |-> sentiment, todo |-> <<>>]
    /\ UNCHANGED <<now, daily>>
    /\ UNCHANGED <<engineVars, callVars, scoreVars, analystVars>>

\* a plain insert dated today, skipped when the price history is empty
create_daily_snapshot(close) ==
    /\ scraper.pc = "snapshot"
    /\ LET id == scraper.narrative_id
       IN  narrative_snapshots' =
               IF close = NULL
               THEN narrative_snapshots
               ELSE [narrative_snapshots EXCEPT ![id] =
                        Append(@, SnapshotRow(scraper.sentiment, close))]
    /\ scraper' = [pc |-> "idle", narrative_id |-> NULL, sentiment |-> 0,
                   todo |-> <<>>]
    /\ UNCHANGED <<now, narratives, narrative_decay_metrics, daily>>
    /\ UNCHANGED <<engineVars, callVars, scoreVars, analystVars>>

\* get_active_narratives without its status filter
get_all_narratives(i) == [id \in 1..(Len(narratives) - i + 1) |-> id + i - 1]

\* get_active_narratives: ids of the rows with status ACTIVE or PENDING, from
\* id i on
RECURSIVE get_active_narratives(_)
get_active_narratives(i) ==
    IF i > Len(narratives) THEN <<>>
    ELSE (IF narratives[i].status \in SelectedStatuses THEN <<i>> ELSE <<>>)
             \o get_active_narratives(i + 1)

\* get_narrative_snapshots orders by snapshot_date alone: rows of the same
\* date come in any order
DateOrders(rows) ==
    {order \in [1..Len(rows) -> 1..Len(rows)] :
        /\ \A i, j \in 1..Len(rows) : i # j => order[i] # order[j]
        /\ \A i \in 1..(Len(rows) - 1) :
               rows[order[i]].snapshot_date <= rows[order[i + 1]].snapshot_date}

RECURSIVE AddSnapshots(_, _, _)
\* the add_datapoint loop over snapshots[i:]
AddSnapshots(e, snapshots, i) ==
    IF i > Len(snapshots) THEN e
    ELSE AddSnapshots(add_datapoint(e, snapshots[i].sentiment, snapshots[i].price,
                                    snapshots[i].snapshot_date), snapshots, i + 1)

\* the engine update_narrative_metrics builds: the constructor takes the
\* narrative row, the loop takes snapshots[1:]
SnapshotEngine(narrative, snapshots) ==
    AddSnapshots(NewEngine(narrative.initial_sentiment, narrative.initial_price,
                           narrative.genesis_date), snapshots, 2)

\* (predicted_exhaustion_date - datetime.now()).days, None without a
\* prediction.  datetime.now() and the genesis date carry a time of day, a
\* snapshot date is a midnight: the floor is the difference in days or one
\* less, according to times of day the model does not hold.
DaysUntilExhaustionOn(today, e, predicted) ==
    IF ~predicted.ok THEN {None}
    ELSE LET d == predicted.day - today
             from_genesis == Last(e.sentiment_history) <= ExhaustionThreshold
             early == IF from_genesis THEN e.t0 = today ELSE predicted.num = 0
         IN  IF early THEN {Some(d - 1)} ELSE {Some(d - 1), Some(d)}

DaysUntilExhaustion(e, predicted) == DaysUntilExhaustionOn(now, e, predicted)

\* the share of the initial sentiment that is left, not the share lost
RetainedPct(initial_sentiment, sentiment) ==
    RoundHalfEven(sentiment * 10000, initial_sentiment)

\* round(decay_pct, 2), in hundredths of a percent
DecayPct(initial_sentiment, sentiment) ==
    RoundHalfEven((initial_sentiment - sentiment) * 10000, initial_sentiment)

\* a plain insert: the row is added whatever the table holds
InsertOnly(table, row, nulls, on_conflict) ==
    Append(table, [c \in DOMAIN nulls |->
                      IF c \in DOMAIN row THEN row[c] ELSE nulls[c]])

\* an insert that leaves a row in conflict as it is (ignore_duplicates)
UpsertIgnoringDuplicates(table, row, nulls, on_conflict) ==
    IF \E i \in DOMAIN table : \A c \in on_conflict : table[i][c] = row[c]
    THEN table
    ELSE Append(table, [c \in DOMAIN nulls |->
                           IF c \in DOMAIN row THEN row[c] ELSE nulls[c]])

\* upsert(row, on_conflict = columns): the row of the table that agrees with
\* the new row on the conflict columns takes the columns of the new row (and
\* keeps its others); when there is none the new row is inserted, its other
\* columns null
Upsert(table, row, nulls, on_conflict) ==
    IF \E i \in DOMAIN table : \A c \in on_conflict : table[i][c] = row[c]
    THEN [i \in DOMAIN table |->
             IF \A c \in on_conflict : table[i][c] = row[c]
             THEN [c \in DOMAIN table[i] |->
                      IF c \in DOMAIN row THEN row[c] ELSE table[i][c]]
             ELSE table[i]]
    ELSE Append(table, [c \in DOMAIN nulls |->
                           IF c \in DOMAIN row THEN row[c] ELSE nulls[c]])

\* a row of narrative_decay_metrics with every column null
NullDecayMetrics ==
    [narrative_id |-> NULL, initial_sentiment |-> NULL,
     current_sentiment |-> NULL, decay_rate |-> NULL, half_life_days |-> None,
     days_until_exhaustion |-> None, status |-> "null"]

\* on_conflict = 'narrative_id'
SameNarrative == {"narrative_id"}

\* the rows of narrative_decay_metrics of a narrative
DecayMetricsOf(id) ==
    SelectSeq(narrative_decay_metrics, LAMBDA row : row.narrative_id = id)

DecayMetricsRow(id, narrative, m, until) ==
    [narrative_id |-> id,
     initial_sentiment |-> narrative.initial_sentiment,
     current_sentiment |-> m.current_sentiment,
     decay_rate |-> m.decay_rate.v,
     half_life_days |-> m.half_life,
     days_until_exhaustion |-> until,
     status |-> m.status]

\* update_narrative_metrics with the threshold on the snapshots at 1
MinSnapshotsOne == 1

\* len(snapshots) < 2: need more data
MinSnapshots == 2

StartDailyUpdate ==
    /\ daily.pc = "idle"
    /\ daily' = [pc |-> "loop", narratives |-> get_active_narratives(1),
                 todo |-> get_active_narratives(1)]
    /\ UNCHANGED <<now, narratives, narrative_snapshots, narrative_decay_metrics,
                   scraper>>
    /\ UNCHANGED <<engineVars, callVars, scoreVars, analystVars>>

\* one iteration of the loop of run_daily_update, on the first narrative
\* still to do
update_narrative_metrics ==
    /\ daily.pc = "loop"
    /\ daily.todo # <<>>
    /\ LET id == Head(daily.todo)
           narrative == narratives[id]
           rows == narrative_snapshots[id]
       IN  IF Len(rows) < MinSnapshots
           THEN UNCHANGED <<narratives, narrative_snapshots,
                            narrative_decay_metrics>>
           ELSE \E order \in DateOrders(rows) :
                \E e \in {SnapshotEngine(narrative,
                               [i \in 1..Len(rows) |-> rows[order[i]]])} :
                \E m \in {get_metrics(e)} :
                    /\ narratives' = [narratives EXCEPT ![id] =
                           [narrative EXCEPT
                               !.current_sentiment = m.current_sentiment,
                               !.status = m.status,
                               !.days_elapsed = m.days_elapsed]]
                    /\ \E until \in DaysUntilExhaustion(e,
                                          m.predicted_exhaustion_date) :
                           narrative_decay_metrics' =
                               Upsert(narrative_decay_metrics,
                                      DecayMetricsRow(id, narrative, m, until),
                                      NullDecayMetrics, SameNarrative)
                    /\ narrative_snapshots' =
                           IF /\ m.half_life.ok
                              /\ m.half_life.v # 0
                              /\ narrative.initial_sentiment # 0
                           THEN [narrative_snapshots EXCEPT ![id] =
                                   [i \in 1..Len(rows) |->
                                       [rows[i] EXCEPT !.sentiment_decay_pct =
                                           DecayPct(narrative.initial_sentiment,
                                                    rows[i].sentiment)]]]
                           ELSE narrative_snapshots
    /\ daily' = [daily EXCEPT !.todo = Tail(@)]
    /\ UNCHANGED <<now, scraper>>
    /\ UNCHANGED <<engineVars, callVars, scoreVars, analystVars>>

FinishDailyUpdate ==
    /\ daily.pc = "loop"
    /\ daily.todo = <<>>
    /\ daily' = [pc |-> "idle", narratives |-> <<>>, todo |-> <<>>]
    /\ UNCHANGED <<now, narratives, narrative_snapshots, narrative_decay_metrics,
                   scraper>>
    /\ UNCHANGED <<engineVars, callVars, scoreVars, analystVars>>

RECURSIVE GCD(_, _)
GCD(a, b) == IF b = 0 THEN a ELSE GCD(b, a % b)

\* -math.log(num / den) for 0 < num < den, in units of 1e-5
NegLogRatioE5(num, den) ==
    LnE5[den \div GCD(den, num)] - LnE5[num \div GCD(den, num)]

\* FormulaCalculator.calculate_narrative_decay on the snapshots as selected:
\* <<the dict>>, or <<>> for the empty dict
calculate_narrative_decay(snapshots) ==
    IF Len(snapshots) < 2
    THEN <<>>
    ELSE LET initial == snapshots[1].sentiment
             current == snapshots[Len(snapshots)].sentiment
             days == Len(snapshots) - 1
             \* 1 - decay_rate / initial is num / den
             num == days * initial - (initial - current)
             den == days * initial
             decay_rate == 100 * RoundHalfEven(100 * (initial - current), days)
         IN  IF initial - current > 0 /\ initial > 0
             THEN IF num <= 0
                  THEN \* math.log raises; the except returns {}
                       <<>>
                  ELSE <<[decay_rate |-> decay_rate,
                          half_life |-> Some(RoundHalfEven(100 * Ln2E5,
                                                 NegLogRatioE5(num, den)))]>>
             ELSE <<[decay_rate |-> decay_rate, half_life |-> None]>>

RECURSIVE ActiveNarratives(_)
\* the select of the decay section of run_daily_scrape: ids of the rows with
\* status ACTIVE, from id i on
ActiveNarratives(i) ==
    IF i > Len(narratives) THEN <<>>
    ELSE (IF narratives[i].status = "ACTIVE" THEN <<i>> ELSE <<>>)
             \o ActiveNarratives(i + 1)

\* the decay section that ends run_daily_scrape: the select
StartNarrativeDecay ==
    /\ scraper.pc = "idle"
    /\ scraper' = [scraper EXCEPT !.pc = "decay", !.todo = ActiveNarratives(1)]
    /\ UNCHANGED <<now, narratives, narrative_snapshots, narrative_decay_metrics,
                   daily>>
    /\ UNCHANGED <<engineVars, callVars, scoreVars, analystVars>>

\* one iteration of its loop: decay_rate and half_life_days are upserted
\* unless calculate_narrative_decay gave the empty dict
UpsertNarrativeDecay ==
    /\ scraper.pc = "decay"
    /\ scraper.todo # <<>>
    /\ LET id == Head(scraper.todo)
           rows == narrative_snapshots[id]
       IN  \E order \in DateOrders(rows) :
           \E decay_metrics \in {calculate_narrative_decay(
                                     [i \in 1..Len(rows) |-> rows[order[i]]])} :
               narrative_decay_metrics' =
                   IF decay_metrics = <<>>
                   THEN narrative_decay_metrics
                   ELSE Upsert(narrative_decay_metrics,
                               [narrative_id |-> id,
                                decay_rate |-> decay_metrics[1].decay_rate,
                                half_life_days |-> decay_metrics[1].half_life],
                               NullDecayMetrics, SameNarrative)
    /\ scraper' = [scraper EXCEPT !.todo = Tail(@)]
    /\ UNCHANGED <<now, narratives, narrative_snapshots, daily>>
    /\ UNCHANGED <<engineVars, callVars, scoreVars, analystVars>>

FinishDailyScrape ==
    /\ scraper.pc = "decay"
    /\ scraper.todo = <<>>
    /\ scraper' = [scraper EXCEPT !.pc = "idle"]
    /\ UNCHANGED <<now, narratives, narrative_snapshots, narrative_decay_metrics,
                   daily>>
    /\ UNCHANGED <<engineVars, callVars, scoreVars, analystVars>>

NextDay ==
    /\ now < MaxDay
    /\ now' = now + 1
    /\ UNCHANGED storeVars
    /\ UNCHANGED <<engineVars, callVars, scoreVars, analystVars>>

StoreInit ==
    /\ now = 0
    /\ StoreIdle
    /\ EngineIdle
    /\ CallsIdle
    /\ ScoresIdle
    /\ AnalystsIdle

StoreNext ==
    \/ \E narrative_name \in NarrativeNames, sentiment \in ArticleSentiments,
          price \in MarketPrices :
           create_or_update_narrative(narrative_name, sentiment, price)
    \/ \E close \in SnapshotCloses : create_daily_snapshot(close)
    \/ StartDailyUpdate
    \/ update_narrative_metrics
    \/ FinishDailyUpdate
    \/ NextDay

SpecStore == StoreInit /\ [][StoreNext]_vars

(***************************************************************************)
(* The store with every writer of narrative_decay_metrics: the daily job   *)
(* and the decay section of run_daily_scrape.  Prices do not move here     *)
(* (the market is flat), so that the sentiment side has room.              *)
(***************************************************************************)
FlatPrice == CHOOSE price \in Prices : \A other \in Prices : price <= other

MetricsNext ==
    \/ \E narrative_name \in NarrativeNames, sentiment \in ArticleSentiments :
           create_or_update_narrative(narrative_name, sentiment, FlatPrice)
    \/ \E close \in {FlatPrice, NULL} : create_daily_snapshot(close)
    \/ StartNarrativeDecay
    \/ UpsertNarrativeDecay
    \/ FinishDailyScrape
    \/ StartDailyUpdate
    \/ update_narrative_metrics
    \/ FinishDailyUpdate
    \/ NextDay

SpecMetrics == StoreInit /\ [][MetricsNext]_vars

(***************************************************************************)
(* Properties of the narrative store (checked under SpecStore).            *)
(***************************************************************************)
InTodo(id) == \E i \in DOMAIN daily.todo : daily.todo[i] = id
SelectStep == daily.pc = "idle" /\ daily'.pc = "loop"
UpdateStep == daily.pc = "loop" /\ daily'.pc = "loop" /\ daily' # daily

\* the statuses classify_status can give a narrative row and its snapshots,
\* over the orders get_narrative_snapshots can return them in
RecomputedStatuses(narrative, rows) ==
    {classify_status(SnapshotEngine(narrative,
                                    [i \in 1..Len(rows) |-> rows[order[i]]])) :
         order \in DateOrders(rows)}

\* C2 (as first stated): a run of run_daily_update recomputes every narrative
\* that has at least 2 snapshots whatever its stored status, so a narrative
\* stored as FAILED or VALIDATED is among those the next run takes up.
C2_EveryStatusSelected ==
    [][SelectStep =>
          \A id \in NarrativeIds :
              /\ narratives[id].status \in {"FAILED", "VALIDATED"}
              /\ Len(narrative_snapshots[id]) >= 2
              => \E i \in DOMAIN daily'.todo : daily'.todo[i] = id]_vars

\* C2: a run of run_daily_update takes up exactly the narratives stored as
\* ACTIVE or PENDING when it selects; each iteration writes the row of the
\* narrative it is about and no other, storing the status recomputed from the
\* row and the snapshots when there are at least 2 snapshots and leaving the
\* row as it is otherwise.  A narrative stored as EXHAUSTED, FAILED or
\* VALIDATED is not taken up, and its row is not written by the run.
C2_ActiveSelected ==
    [][/\ SelectStep =>
              \A id \in NarrativeIds :
                  (\E i \in DOMAIN daily'.todo : daily'.todo[i] = id)
                      <=> narratives[id].status \in {"ACTIVE", "PENDING"}
       /\ UpdateStep =>
              \A id \in NarrativeIds :
                  IF id = Head(daily.todo) /\ Len(narrative_snapshots[id]) >= 2
                  THEN narratives'[id].status \in
                           RecomputedStatuses(narratives[id], narrative_snapshots[id])
                  ELSE narratives'[id] = narratives[id]
       /\ daily' # daily =>
              \A id \in NarrativeIds :
                  narratives[id].status \notin {"ACTIVE", "PENDING"}
                      => narratives'[id] = narratives[id]]_vars

\* a run in progress that did not take up a narrative stored as FAILED, which
\* has 3 snapshots
C2_Witness ==
    /\ daily.pc = "loop"
    /\ \E id \in NarrativeIds :
           /\ narratives[id].status = "FAILED"
           /\ Len(narrative_snapshots[id]) >= 3
           /\ ~InTodo(id)
           /\ DecayMetricsOf(id) # <<>>
           /\ DecayMetricsOf(id)[1].status = "FAILED"

LatestSnapshotDate(rows) ==
    CHOOSE d \in {rows[i].snapshot_date : i \in DOMAIN rows} :
        \A i \in DOMAIN rows : rows[i].snapshot_date <= d

\* C9: the days_elapsed an update stores for a narrative (the n of the decay
\* formulas, len(sentiment_history) - 1) is the number of days from the
\* narrative's genesis date to its latest snapshot.
C9_DaysFromGenesis ==
    [][UpdateStep =>
          LET id == Head(daily.todo)
              rows == narrative_snapshots[id]
          IN  Len(rows) >= 2 =>
                  narratives'[id].days_elapsed
                      = LatestSnapshotDate(rows) - narratives[id].genesis_date]_vars

\* C10: no two snapshots of one narrative carry the same snapshot_date.
C10_StrictDates ==
    \A id \in DOMAIN narrative_snapshots :
        \A i, j \in DOMAIN narrative_snapshots[id] :
            i # j => narrative_snapshots[id][i].snapshot_date
                         # narrative_snapshots[id][j].snapshot_date

\* decay_rate, half_life, correlation and status as update_narrative_metrics
\* computes them for a narrative row and its snapshots in a given order
DecayOutputs(narrative, snapshots) ==
    LET e == SnapshotEngine(narrative, snapshots)
    IN  <<calculate_decay_rate(e), calculate_half_life(e),
          calculate_price_correlation(e), classify_status(e)>>

\* C11: the snapshots are the only input of the decay and correlation math:
\* for the snapshots of a narrative, in any order get_narrative_snapshots can
\* give them, the decay_rate, half_life, correlation and status computed are
\* the same whatever initial_sentiment and initial_price the narrative row
\* holds (those of a second narrative with the same snapshots).
C11_SnapshotsOnlyInput ==
    \A id \in NarrativeIds :
        LET rows == narrative_snapshots[id]
        IN  Len(rows) >= 2 =>
                \A order \in DateOrders(rows) :
                \A sentiment \in ArticleSentiments, price \in MarketPrices :
                    LET snapshots == [i \in 1..Len(rows) |-> rows[order[i]]]
                    IN  DecayOutputs(narratives[id], snapshots)
                            = DecayOutputs([narratives[id] EXCEPT
                                               !.initial_sentiment = sentiment,
                                               !.initial_price = price],
                                           snapshots)

\* C12: an iteration of the daily run on a narrative with fewer than 2
\* snapshots writes nothing: the narrative rows, the decay metrics rows and the
\* snapshots are all as they were.
C12_FewSnapshotsNoWrite ==
    [][UpdateStep /\ Len(narrative_snapshots[Head(daily.todo)]) < 2 =>
          /\ narratives' = narratives
          /\ narrative_decay_metrics' = narrative_decay_metrics
          /\ narrative_snapshots' = narrative_snapshots]_vars

\* the run has been through the narrative it selected, which has one snapshot,
\* and the narrative is as the scraper left it, without a decay metrics row
C12_Witness ==
    /\ daily.pc = "loop"
    /\ daily.narratives = <<1>>
    /\ daily.todo = <<>>
    /\ Len(narrative_snapshots[1]) = 1
    /\ narratives[1].status = "ACTIVE"
    /\ narratives[1].days_elapsed = 0
    /\ DecayMetricsOf(1) = <<>>

(***************************************************************************)
(* Analyst scores.  Two calculators write the table analyst_scores, both   *)
(* with an upsert on (analyst_id, ticker): PatentFormulaCalculator of the  *)
(* daily calculations and FormulaCalculator of the scraper.  Scores are    *)
(* kept in hundredths, as the code rounds them to two places; a float the  *)
(* code does not round is a fraction [num, den].                           *)
(***************************************************************************)
\* evaluated calls of the first analyst: up to MaxCorrect directionally
\* correct ones and up to MaxWrong others, and up to MaxPending pending ones
MaxCorrect == 8
MaxWrong == 3
MaxPending == 1

Analysts == {1, 2}
Tickers == {"AAA"}

DefaultScore == 5000
Alpha0 == 2
Beta0 == 2
FairValuePE == 17
DefaultRatio == 100
DefaultDiscipline == 50
MinHistory == 30

\* a row of analyst_calls as the scores read it
TrackedCall(analyst_id, ticker, outcome_status, directional_correct) ==
    [NewCall(0, 50, 1) EXCEPT !.outcome_status = outcome_status,
                              !.directional_correct = directional_correct]
        @@ [analyst_id |-> analyst_id, ticker |-> ticker]

\* n copies of a row
Rows(n, row) == [i \in 1..n |-> row]

\* the calls of the first analyst, and one correct evaluated call of the
\* second
CallTable(correct, wrong, pending) ==
    Rows(correct, TrackedCall(1, "AAA", "EVALUATED", "true"))
        \o Rows(wrong, TrackedCall(1, "AAA", "EVALUATED", "false"))
        \o Rows(pending, TrackedCall(1, "AAA", "PENDING", "null"))
        \o <<TrackedCall(2, "AAA", "EVALUATED", "true")>>

\* every call of the analyst, whatever its outcome_status
CallsOf(analyst_id) ==
    SelectSeq(analyst_calls, LAMBDA call : call.analyst_id = analyst_id)

\* the selection without the filter on outcome_status
CallsOfAnyStatus(analyst_id) ==
    SelectSeq(analyst_calls, LAMBDA call : call.analyst_id = analyst_id)

\* .eq('analyst_id', analyst_id).eq('outcome_status', 'EVALUATED')
EvaluatedCalls(analyst_id) ==
    SelectSeq(analyst_calls,
              LAMBDA call : /\ call.analyst_id = analyst_id
                            /\ call.outcome_status = "EVALUATED")

\* sum(1 for call in calls.data if call.get('directional_correct'))
Correct(calls) ==
    Len(SelectSeq(calls, LAMBDA call : call.directional_correct = "true"))

\* the unrounded AAR of the scraper: a fraction
AccuracyRatio(analyst_id) ==
    LET calls == EvaluatedCalls(analyst_id)
    IN  IF calls = <<>> THEN [num |-> 50, den |-> 1]
        ELSE [num |-> 100 * Correct(calls), den |-> Len(calls)]

\* the unrounded ARB of the scraper: a fraction
ReliabilityRatio(analyst_id) ==
    LET calls == EvaluatedCalls(analyst_id)
        successes == Correct(calls)
        failures == Len(calls) - successes
    IN  IF calls = <<>> THEN [num |-> 50, den |-> 1]
        ELSE [num |-> 100 * (Alpha0 + successes),
              den |-> Alpha0 + Beta0 + successes + failures]

\* PatentFormulaCalculator.calculate_analyst_accuracy, in hundredths
calculate_analyst_accuracy(analyst_id) ==
    LET calls == EvaluatedCalls(analyst_id)
    IN  IF calls = <<>> THEN DefaultScore
        ELSE RoundHalfEven(100 * 100 * Correct(calls), Len(calls))

\* the same with the prior left out of the numerator
ReliabilityNoPrior(analyst_id) ==
    LET calls == EvaluatedCalls(analyst_id)
        successes == Correct(calls)
        failures == Len(calls) - successes
    IN  IF calls = <<>> THEN DefaultScore
        ELSE RoundHalfEven(100 * 100 * successes,
                           Alpha0 + Beta0 + successes + failures)

\* PatentFormulaCalculator.calculate_reliability_bayesian, in hundredths
calculate_reliability_bayesian(analyst_id) ==
    LET calls == EvaluatedCalls(analyst_id)
        successes == Correct(calls)
        failures == Len(calls) - successes
    IN  IF calls = <<>> THEN DefaultScore
        ELSE RoundHalfEven(100 * 100 * (Alpha0 + successes),
                           Alpha0 + Beta0 + successes + failures)

\* round(num / den, 2) in hundredths, for a denominator of either sign
RoundRatio(num, den) ==
    IF den > 0 THEN RoundHalfEven(100 * num, den)
    ELSE RoundHalfEven(-(100 * num), -den)

\* calculate_overreaction_ratio, in hundredths
calculate_overreaction_ratio(feed) ==
    IF feed.rows < MinHistory THEN DefaultRatio
    ELSE IF Len(feed.revenue) < 2 THEN DefaultRatio
    ELSE LET latest_revenue == feed.revenue[1]
             prior_revenue == feed.revenue[2]
         IN  IF latest_revenue # prior_revenue
             THEN RoundRatio(Abs(feed.price_current - feed.price_30d_ago)
                                 * Abs(prior_revenue),
                             Abs(feed.price_30d_ago)
                                 * Abs(latest_revenue - prior_revenue))
             ELSE DefaultRatio

ZeroPremium == [premium_pct |-> 0, fair_value_delta |-> 0]

\* premium and delta for a fair value of FairValuePE times the earnings
Premium(current_price, eps) ==
    LET fair_value == eps * FairValuePE
    IN  [premium_pct |-> RoundRatio(100 * (current_price - fair_value), fair_value),
         fair_value_delta |-> 100 * (current_price - fair_value)]

\* PatentFormulaCalculator.calculate_narrative_premium
calculate_narrative_premium(feed) ==
    LET current_price ==
            IF feed.currentPrice = 0 /\ feed.rows > 0 THEN feed.price_current
            ELSE feed.currentPrice
    IN  IF feed.trailingEps <= 0 THEN ZeroPremium
        ELSE Premium(current_price, feed.trailingEps)

\* FormulaCalculator.calculate_narrative_premium
ScraperNarrativePremium(feed) ==
    IF feed.trailingEps = 0 THEN ZeroPremium
    ELSE Premium(feed.currentPrice, feed.trailingEps)

\* an article of the ticker of the last 7 days: whether its title and summary
\* hold the narrative name, the minute it was published at, whether it has
\* an author, and its text
Article(relevant, published_at, author, text) ==
    [relevant |-> relevant, published_at |-> published_at, author |-> author,
     text |-> text]

\* SequenceMatcher(None, s, t).ratio() in hundredths, for the texts of the
\* model: x and y are close, x and z at the threshold, y and z apart
Similarity(s, t) ==
    IF s = t THEN 100
    ELSE IF {s, t} = {"x", "y"} THEN 75
    ELSE IF {s, t} = {"x", "z"} THEN 70
    ELSE 50

RECURSIVE Insert(_, _)
\* x put at its place in a sorted sequence
Insert(x, sorted) ==
    IF sorted = <<>> THEN <<x>>
    ELSE IF x <= Head(sorted) THEN <<x>> \o sorted
    ELSE <<Head(sorted)>> \o Insert(x, Tail(sorted))

RECURSIVE Sorted(_)
\* timestamps.sort()
Sorted(s) == IF s = <<>> THEN <<>> ELSE Insert(Head(s), Sorted(Tail(s)))

HourMinutes == 60
TimingPoints == 45
PhrasingPoints == 30
AnonymousPoints == 20
SimilarityAbove == 70

\* the score with the timing check on timestamps[i + apart] - timestamps[i]
CoordinationScore(articles, apart) ==
    LET relevant == SelectSeq(articles, LAMBDA a : a.relevant)
        timestamps == Sorted([i \in DOMAIN relevant |-> relevant[i].published_at])
        timing == \E i \in 1..(Len(timestamps) - apart) :
                      timestamps[i + apart] - timestamps[i] < HourMinutes
        sims == {Similarity(relevant[p[1]].text, relevant[p[2]].text) :
                    p \in {q \in (DOMAIN relevant) \X (DOMAIN relevant) : q[1] < q[2]}}
        max_sim == IF sims = {} THEN 0
                   ELSE CHOOSE m \in sims : \A n \in sims : n <= m
        anon == Len(SelectSeq(relevant, LAMBDA a : ~a.author))
    IN  IF Len(articles) < 2 THEN 0
        ELSE IF Len(relevant) < 2 THEN 0
        ELSE Min(100, (IF timing THEN TimingPoints ELSE 0)
                          + (IF max_sim > SimilarityAbove THEN PhrasingPoints ELSE 0)
                          + (IF 2 * anon >= Len(relevant) THEN AnonymousPoints
                             ELSE 0))

\* the timing check on any two sources within the hour
CoordinationOfPairs(articles) == CoordinationScore(articles, 1)

\* PatentFormulaCalculator.calculate_coordination_score on the articles of the
\* ticker (timestamps in minutes)
calculate_coordination_score(articles) == CoordinationScore(articles, 2)

\* the score with the bonus given from numeric_anchors = hype_count * 3 on
HypeDisciplineBonusFrom(full_text) ==
    IF full_text = <<>> THEN 50
    ELSE LET numeric_anchors == full_text[1]
             hype_count == full_text[2]
             hds == IF numeric_anchors > 0
                    THEN Min(100, (20 * numeric_anchors) \div (hype_count + 1))
                    ELSE 0
         IN  IF numeric_anchors >= hype_count * 3 THEN Min(100, hds + 20)
             ELSE hds

\* calculate_hype_discipline on a text with the given numbers of numeric
\* anchors and of hype words; <<>> is an empty or missing text
calculate_hype_discipline(full_text) ==
    IF full_text = <<>> THEN DefaultDiscipline
    ELSE LET numeric_anchors == full_text[1]
             hype_count == full_text[2]
             hds == IF numeric_anchors > 0
                    THEN Min(100, (20 * numeric_anchors) \div (hype_count + 1))
                    ELSE 0
         IN  IF numeric_anchors > hype_count * 3 THEN Min(100, hds + 20)
             ELSE hds

\* the composite of the daily calculator, in ten-thousandths
Composite(aar, arb, hds, coord) ==
    aar * 25 + arb * 15 + (100 * hds) * 10 + (100 * (100 - coord)) * 5
        + (100 * 50) * 45

\* the composite of the scraper, aar * 0.30 + arb * 0.20 + 50 * 0.50, a fraction
ScraperComposite(aar, arb) ==
    [num |-> 30 * aar.num * arb.den + 20 * arb.num * aar.den
                 + 2500 * aar.den * arb.den,
     den |-> 100 * aar.den * arb.den]

\* narrative risk classification
NarrativeRisk(or_ratio, coord) ==
    IF or_ratio > 300 \/ coord > 70 THEN 80
    ELSE IF or_ratio > 200 \/ coord > 50 THEN 60
    ELSE 30

NullScore ==
    [analyst_id |-> NULL, ticker |-> "null", accuracy_rate |-> NULL,
     reliability_score |-> NULL, claim_verifiability |-> NULL,
     overreaction_ratio |-> NULL, narrative_risk |-> NULL,
     narrative_premium_pct |-> NULL, fair_value_delta |-> NULL,
     credibility_score |-> NULL]

\* on_conflict='analyst_id,ticker'
SameAnalystTicker == {"analyst_id", "ticker"}

ScoresOf(analyst_id, ticker) ==
    SelectSeq(analyst_scores,
              LAMBDA row : row.analyst_id = analyst_id /\ row.ticker = ticker)

\* the record the daily calculator saves
DailyScore(analyst_id, ticker, feed) ==
    LET aar == calculate_analyst_accuracy(analyst_id)
        arb == calculate_reliability_bayesian(analyst_id)
        or_ratio == calculate_overreaction_ratio(feed)
        npp == calculate_narrative_premium(feed)
        hds == IF feed.article = "ok" /\ feed.full_text # <<>>
               THEN calculate_hype_discipline(feed.full_text)
               ELSE DefaultDiscipline
        coord == IF feed.narrative = "ok"
                 THEN calculate_coordination_score(feed.articles)
                 ELSE 0
    IN  [analyst_id |-> analyst_id, ticker |-> ticker,
         accuracy_rate |-> aar,
         reliability_score |-> arb,
         claim_verifiability |-> 100 * hds,
         overreaction_ratio |-> or_ratio,
         narrative_risk |-> 100 * NarrativeRisk(or_ratio, coord),
         narrative_premium_pct |-> npp.premium_pct,
         fair_value_delta |-> npp.fair_value_delta,
         credibility_score |-> RoundHalfEven(Composite(aar, arb, hds, coord), 100)]

\* the record the scraper saves
ScraperScore(analyst_id, ticker, feed) ==
    LET aar == AccuracyRatio(analyst_id)
        arb == ReliabilityRatio(analyst_id)
        valuation == ScraperNarrativePremium(feed)
        acs == ScraperComposite(aar, arb)
    IN  [analyst_id |-> analyst_id, ticker |-> ticker,
         accuracy_rate |-> RoundRatio(aar.num, aar.den),
         reliability_score |-> RoundRatio(arb.num, arb.den),
         claim_verifiability |-> 6000,
         overreaction_ratio |-> DefaultRatio,
         narrative_risk |-> 5000,
         narrative_premium_pct |-> valuation.premium_pct,
         fair_value_delta |-> valuation.fair_value_delta,
         credibility_score |-> RoundRatio(acs.num, acs.den)]

\* what the outside can answer
CaseStudy ==
    [currentPrice |-> 120, trailingEps |-> 5,
     rows |-> 41, price_30d_ago |-> 100, price_current |-> 83,
     revenue |-> <<214, 100>>,
     article |-> "ok", full_text |-> <<3, 1>>,
     narrative |-> "ok",
     articles |-> <<Article(TRUE, 0, TRUE, "x"), Article(TRUE, 20, TRUE, "y"),
                    Article(TRUE, 40, FALSE, "y")>>]
LossMaker ==
    [currentPrice |-> 120, trailingEps |-> -5,
     rows |-> 41, price_30d_ago |-> 100, price_current |-> 60,
     revenue |-> <<110, 100>>,
     article |-> "ok", full_text |-> <<4, 0>>,
     narrative |-> "ok", articles |-> <<>>]
\* the articles lookup raises (.single() finds no row, or the request fails)
ArticleError == [NoMarketData EXCEPT !.article = "error"]
\* the narratives lookup raises
NarrativeError == [NoMarketData EXCEPT !.narrative = "error"]
Feeds == {NoMarketData, CaseStudy, LossMaker, ArticleError, NarrativeError}

NotScored == [by |-> "none", analyst_id |-> NULL, ticker |-> "null"]

RECURSIVE TickerCount(_, _)
TickerCount(calls, ticker) ==
    IF calls = <<>> THEN 0
    ELSE (IF Head(calls).ticker = ticker THEN 1 ELSE 0)
             + TickerCount(Tail(calls), ticker)

\* max(ticker_counts, key=ticker_counts.get): the most frequent ticker of the
\* analyst's calls, the one met first among equals
PrimaryTicker(analyst_id) ==
    LET calls == CallsOf(analyst_id)
        best == {i \in DOMAIN calls :
                    \A j \in DOMAIN calls :
                        TickerCount(calls, calls[j].ticker)
                            <= TickerCount(calls, calls[i].ticker)}
    IN  calls[CHOOSE i \in best : \A j \in best : i <= j].ticker

\* PatentFormulaCalculator.update_analyst_scores, called by
\* calculate_all_analyst_scores for an analyst that has calls: an exception
\* of the articles or of the narratives lookup is logged and nothing is saved
SaveAnalystScores(analyst_id, ticker) ==
    /\ analyst_scores' =
           IF feeds.article = "error" \/ feeds.narrative = "error"
           THEN analyst_scores
           ELSE Upsert(analyst_scores, DailyScore(analyst_id, ticker, feeds),
                       NullScore, SameAnalystTicker)
    /\ scored' = [by |-> "daily", analyst_id |-> analyst_id, ticker |-> ticker]

update_analyst_scores(analyst_id, ticker) ==
    /\ SaveAnalystScores(analyst_id, ticker)
    /\ UNCHANGED <<feeds, scoring, now, engineVars, callVars, storeVars, analystVars>>

calculate_all_analyst_scores ==
    \E analyst_id \in Analysts :
        /\ CallsOf(analyst_id) # <<>>
        /\ update_analyst_scores(analyst_id, PrimaryTicker(analyst_id))

\* FormulaCalculator.update_analyst_scores, called by run_daily_scrape for
\* the analyst and the ticker of a call it has tracked
ScraperUpdateAnalystScores(analyst_id, ticker) ==
    /\ \E i \in DOMAIN analyst_calls :
           /\ analyst_calls[i].analyst_id = analyst_id
           /\ analyst_calls[i].ticker = ticker
    /\ analyst_scores' = Upsert(analyst_scores,
                                ScraperScore(analyst_id, ticker, feeds),
                                NullScore, SameAnalystTicker)
    /\ scored' = [by |-> "scraper", analyst_id |-> analyst_id, ticker |-> ticker]
    /\ UNCHANGED <<feeds, scoring, now, engineVars, callVars, storeVars, analystVars>>

\* the market, the articles and the narratives change
Outside ==
    /\ feeds' \in Feeds \ {feeds}
    /\ UNCHANGED <<analyst_scores, scored, scoring, now, engineVars, callVars,
                    storeVars, analystVars>>

ScoresInit ==
    /\ analyst_calls \in {CallTable(correct, wrong, pending) :
                             correct \in 0..MaxCorrect, wrong \in 0..MaxWrong,
                             pending \in 0..MaxPending}
    /\ feeds \in Feeds
    /\ analyst_scores = <<>>
    /\ scored = NotScored
    /\ scoring = [pc |-> "idle", todo |-> <<>>]
    /\ final_close = <<>>
    /\ evaluation = [r \in {1, 2} |-> [pc |-> "idle", todo |-> <<>>]]
    /\ now = 0
    /\ EngineIdle
    /\ StoreIdle
    /\ AnalystsIdle

ScoresNext ==
    \/ calculate_all_analyst_scores
    \/ \E analyst_id \in Analysts, ticker \in Tickers :
           ScraperUpdateAnalystScores(analyst_id, ticker)
    \/ Outside

SpecScores == ScoresInit /\ [][ScoresNext]_vars

(***************************************************************************)
(* Every writer of the two recomputed tables together: the daily job and   *)
(* the scraper's decay section on narrative_decay_metrics, the two         *)
(* calculators on analyst_scores, for one analyst whose call the scraper   *)
(* has just tracked and with nothing known outside.                        *)
(***************************************************************************)
UpsertsInit ==
    /\ now = 0
    /\ StoreIdle
    /\ EngineIdle
    /\ final_close = <<>>
    /\ evaluation = [r \in {1, 2} |-> [pc |-> "idle", todo |-> <<>>]]
    /\ analyst_calls = <<TrackedCall(1, "AAA", "PENDING", "null")>>
    /\ ScoresIdle
    /\ AnalystsIdle

UpsertsNext ==
    \/ MetricsNext
    \/ calculate_all_analyst_scores
    \/ \E analyst_id \in Analysts, ticker \in Tickers :
           ScraperUpdateAnalystScores(analyst_id, ticker)

SpecUpserts == UpsertsInit /\ [][UpsertsNext]_vars

\* the keys present in the two tables
DecayMetricsKeys == {narrative_decay_metrics[i].narrative_id :
                        i \in DOMAIN narrative_decay_metrics}
AnalystScoreKeys == {<<analyst_scores[i].analyst_id, analyst_scores[i].ticker>> :
                        i \in DOMAIN analyst_scores}

\* C13: whatever the daily updates and the scraper runs did, and in whatever
\* order, narrative_decay_metrics holds at most one row per narrative_id and
\* analyst_scores at most one row per (analyst_id, ticker).
C13_OneRowPerKey ==
    /\ \A id \in NarrativeIds : Len(DecayMetricsOf(id)) <= 1
    /\ \A analyst_id \in Analysts, ticker \in Tickers :
           Len(ScoresOf(analyst_id, ticker)) <= 1

\* both tables have been written twice for one key: the decay metrics by the
\* daily job (the row has a status, which only the daily job writes) and by
\* the scraper's decay section, which has been through the narrative; the
\* scores by the daily calculator and then by the scraper
C13_Witness ==
    /\ DecayMetricsKeys = {1}
    /\ Len(narrative_decay_metrics) = 1
    /\ narrative_decay_metrics[1].status # "null"
    /\ scraper.pc = "decay"
    /\ scraper.todo = <<>>
    /\ daily.pc = "idle"
    /\ narratives[1].status = "ACTIVE"
    /\ Len(narrative_snapshots[1]) >= 2
    /\ AnalystScoreKeys = {<<1, "AAA">>}
    /\ Len(analyst_scores) = 1
    /\ scored.by = "scraper"
    /\ analyst_scores[1].claim_verifiability = 6000
    /\ analyst_scores[1].narrative_risk = 5000

\* what a run of update_narrative_metrics on the given day can store for a
\* narrative: the decay fields of its narrative_decay_metrics row and the
\* three columns of its narratives row
StoredBy(today, narrative, rows) ==
    UNION {LET e == SnapshotEngine(narrative,
                        [i \in 1..Len(rows) |-> rows[order[i]]])
               m == get_metrics(e)
           IN  {[decay_rate |-> m.decay_rate.v,
                 half_life_days |-> m.half_life,
                 days_until_exhaustion |-> until,
                 metrics_status |-> m.status,
                 status |-> m.status,
                 current_sentiment |-> m.current_sentiment,
                 days_elapsed |-> m.days_elapsed] :
                   until \in DaysUntilExhaustionOn(today, e,
                                 m.predicted_exhaustion_date)} :
           order \in DateOrders(rows)}

\* C14: a second run of update_narrative_metrics on a narrative, the same day
\* or the day after and with no snapshot added in between, stores what the
\* first run stored: the same decay rate, half life, days until exhaustion and
\* status, the same current sentiment and days elapsed.  (A run changes
\* nothing the next run reads: it writes columns of the narrative row the
\* engine is not built from, and sentiment_decay_pct of the snapshots.)
C14_RecomputeIdempotent ==
    \A id \in NarrativeIds :
        Len(narrative_snapshots[id]) >= MinSnapshots =>
            \A first \in StoredBy(now, narratives[id], narrative_snapshots[id]) :
            \A today \in {now, now + 1} :
            \A second \in StoredBy(today, narratives[id], narrative_snapshots[id]) :
                second = first

\* a step of the scraper that saves the narrative of an article
DetectStep == scraper.pc = "idle" /\ scraper'.pc = "snapshot"

\* C15: there is one narrative per narrative name (of the ticker), and an
\* article that names a narrative which exists already leaves the genesis
\* date, the initial sentiment and the status of that narrative as they were.
C15_CreatedOnce ==
    [][DetectStep =>
          /\ \A i, j \in DOMAIN narratives' :
                 narratives'[i].narrative_name = narratives'[j].narrative_name
                     => i = j
          /\ \A id \in NarrativeIds :
                 /\ narratives'[id].genesis_date = narratives[id].genesis_date
                 /\ narratives'[id].initial_sentiment
                        = narratives[id].initial_sentiment
                 /\ narratives'[id].status = narratives[id].status]_vars

\* the evaluated calls of an analyst and the correct ones among them, counted
\* on the table
EvaluatedIds(analyst_id) ==
    {i \in DOMAIN analyst_calls :
        /\ analyst_calls[i].analyst_id = analyst_id
        /\ analyst_calls[i].outcome_status = "EVALUATED"}
CorrectIds(analyst_id) ==
    {i \in EvaluatedIds(analyst_id) : analyst_calls[i].directional_correct = "true"}

\* value, in hundredths, is num / den x 100 to the nearest hundredth
NearestHundredth(value, num, den) == 2 * Abs(value * den - 100 * 100 * num) <= den

\* C16: the accuracy rate of an analyst is 50.0 without evaluated calls, and
\* otherwise 100 x correct evaluated calls / evaluated calls, to two places (a
\* pending call counts in neither number; 7 of 10 is 70.0); the accuracy_rate
\* of the analyst's score rows is that value.
C16_AccuracyRate ==
    \A analyst_id \in Analysts :
        LET evaluated == Cardinality(EvaluatedIds(analyst_id))
            correct == Cardinality(CorrectIds(analyst_id))
            aar == calculate_analyst_accuracy(analyst_id)
        IN  /\ evaluated = 0 => aar = 5000
            /\ evaluated > 0 => NearestHundredth(aar, correct, evaluated)
            /\ correct = 7 /\ evaluated = 10 => aar = 7000
            /\ \A i \in DOMAIN analyst_scores :
                   analyst_scores[i].analyst_id = analyst_id
                       => analyst_scores[i].accuracy_rate = aar

\* the daily calculator has scored an analyst with 7 correct calls of 10
\* evaluated ones, and a pending one
C16_Witness ==
    /\ Cardinality(CorrectIds(1)) = 7
    /\ Cardinality(EvaluatedIds(1)) = 10
    /\ Len(CallsOf(1)) = 11
    /\ scored = [by |-> "daily", analyst_id |-> 1, ticker |-> "AAA"]
    /\ Len(ScoresOf(1, "AAA")) = 1
    /\ ScoresOf(1, "AAA")[1].accuracy_rate = 7000
    /\ ScoresOf(1, "AAA")[1].claim_verifiability = 100 * DefaultDiscipline

ScoreStep == feeds' = feeds /\ (scored' # scored \/ analyst_scores' # analyst_scores)

\* the rows of analyst_scores the step has written
Written == {i \in DOMAIN analyst_scores' :
               i \notin DOMAIN analyst_scores \/ analyst_scores'[i] # analyst_scores[i]}

\* the hype discipline score and the coordination score of what the outside
\* holds: 50 without a text, 0 without a narrative
HypeDiscipline ==
    IF feeds.article = "ok" /\ feeds.full_text # <<>>
    THEN calculate_hype_discipline(feeds.full_text)
    ELSE DefaultDiscipline
Coordination ==
    IF feeds.narrative = "ok" THEN calculate_coordination_score(feeds.articles)
    ELSE 0

\* C18: whichever calculator writes a score row, its credibility_score is
\* AAR x 0.25 + ARB x 0.15 + HDS x 0.10 + (100 - coordination) x 0.05
\* + 50 x 0.45, to two places, for the AAR and ARB of the row.
C18_CredibilityFormula ==
    [][ScoreStep =>
          \A i \in Written :
              2 * Abs(100 * analyst_scores'[i].credibility_score
                          - Composite(analyst_scores'[i].accuracy_rate,
                                      analyst_scores'[i].reliability_score,
                                      HypeDiscipline, Coordination)) <= 100]_vars

\* C19: every call of update_analyst_scores leaves a score row for its
\* analyst and ticker, with 50.0 for the accuracy and the reliability of an
\* analyst without evaluated calls and, from the daily calculator, 50 for the
\* discipline without a text, 1.0 for the overreaction ratio without 30 rows
\* of history and 0 for the premium without earnings.
C19_AlwaysWrites ==
    [][ScoreStep =>
          LET rows == SelectSeq(analyst_scores',
                          LAMBDA row : /\ row.analyst_id = scored'.analyst_id
                                       /\ row.ticker = scored'.ticker)
          IN  /\ Len(rows) = 1
              /\ EvaluatedIds(scored'.analyst_id) = {} =>
                     /\ rows[1].accuracy_rate = DefaultScore
                     /\ rows[1].reliability_score = DefaultScore
              /\ scored'.by = "daily" =>
                     /\ feeds.full_text = <<>> =>
                            rows[1].claim_verifiability = 100 * DefaultDiscipline
                     /\ feeds.rows < MinHistory =>
                            rows[1].overreaction_ratio = DefaultRatio
                     /\ feeds.trailingEps = 0 =>
                            rows[1].narrative_premium_pct = 0]_vars

\* C20: whichever calculator writes a score row, its narrative premium is
\* (price - 17 x EPS) / (17 x EPS) x 100 to two places when the trailing EPS
\* is positive (41.18 for a price of 120 and an EPS of 5), and 0 when the
\* trailing EPS is zero or negative.
C20_NarrativePremium ==
    [][ScoreStep =>
          \A i \in Written :
              LET premium == analyst_scores'[i].narrative_premium_pct
                  fair_value == FairValuePE * feeds.trailingEps
              IN  /\ feeds.trailingEps > 0 =>
                         NearestHundredth(premium, feeds.currentPrice - fair_value,
                                          fair_value)
                  /\ feeds.trailingEps = 5 /\ feeds.currentPrice = 120 =>
                         premium = 4118
                  /\ feeds.trailingEps <= 0 => premium = 0]_vars

(***************************************************************************)
(* The coordination score on its own: the articles of the ticker are any   *)
(* up to MaxArticles articles, in one order each (the score does not       *)
(* depend on the order of the rows), and the daily calculator scores the   *)
(* analyst.                                                                *)
(***************************************************************************)
MaxArticles == 3

PublishMinutes == <<0, 20, 40, 60>>
Texts == <<"x", "y", "z">>
ArticleKinds == 2 * 2 * Len(PublishMinutes) * Len(Texts)

\* the article of a number below ArticleKinds
ArticleOf(kind) ==
    Article(kind % 2 = 1,
            PublishMinutes[((kind \div 4) % Len(PublishMinutes)) + 1],
            (kind \div 2) % 2 = 1,
            Texts[(kind \div (4 * Len(PublishMinutes))) + 1])

\* the tables of n articles, one per multiset
RECURSIVE ArticleTables(_, _)
ArticleTables(n, least) ==
    IF n = 0 THEN {<<>>}
    ELSE UNION {{<<ArticleOf(kind)>> \o rest : rest \in ArticleTables(n - 1, kind)} :
                   kind \in least..(ArticleKinds - 1)}

CoordinationInit ==
    /\ feeds \in {[NoMarketData EXCEPT !.narrative = "ok", !.articles = articles] :
                     articles \in UNION {ArticleTables(n, 0) : n \in 0..MaxArticles}}
    /\ analyst_calls = <<TrackedCall(1, "AAA", "EVALUATED", "true")>>
    /\ analyst_scores = <<>>
    /\ scored = NotScored
    /\ scoring = [pc |-> "idle", todo |-> <<>>]
    /\ final_close = <<>>
    /\ evaluation = [r \in {1, 2} |-> [pc |-> "idle", todo |-> <<>>]]
    /\ now = 0
    /\ EngineIdle
    /\ StoreIdle
    /\ AnalystsIdle

SpecCoordination == CoordinationInit /\ [][calculate_all_analyst_scores]_vars

\* the articles that hold the narrative name
Matching == {i \in DOMAIN feeds.articles : feeds.articles[i].relevant}

\* some three of them were published less than an hour apart (then three
\* consecutive ones in sorted order were)
ThreeWithinHour ==
    \E i, j, k \in Matching :
        /\ i < j /\ j < k
        /\ \A a, b \in {i, j, k} :
               feeds.articles[a].published_at - feeds.articles[b].published_at < 60

SimilarPair ==
    \E i, j \in Matching :
        i # j /\ Similarity(feeds.articles[i].text, feeds.articles[j].text) > 70

HalfAnonymous ==
    2 * Cardinality({i \in Matching : ~feeds.articles[i].author})
        >= Cardinality(Matching)

MaxAnchors == 12
MaxHype == 4

DisciplineInit ==
    /\ feeds \in {[NoMarketData EXCEPT !.article = "ok", !.full_text = full_text] :
                     full_text \in {<<>>} \cup ((0..MaxAnchors) \X (0..MaxHype))}
    /\ analyst_calls = <<TrackedCall(1, "AAA", "EVALUATED", "true")>>
    /\ analyst_scores = <<>>
    /\ scored = NotScored
    /\ scoring = [pc |-> "idle", todo |-> <<>>]
    /\ final_close = <<>>
    /\ evaluation = [r \in {1, 2} |-> [pc |-> "idle", todo |-> <<>>]]
    /\ now = 0
    /\ EngineIdle
    /\ StoreIdle
    /\ AnalystsIdle

SpecDiscipline == DisciplineInit /\ [][calculate_all_analyst_scores]_vars

\* C22: for a text with a numeric anchors and h hype words the hype discipline
\* score is min(100, floor(20 a / (h + 1))), plus 20 and at most 100 when
\* a > 3 h; it is 0 when a = 0; it is 50 for an empty or missing text; it is
\* an integer of 0..100, and the claim_verifiability of the score row the
\* daily calculator writes.
C22_HypeDiscipline ==
    LET hds == calculate_hype_discipline(feeds.full_text)
    IN  /\ hds \in 0..100
        /\ feeds.full_text = <<>> => hds = 50
        /\ feeds.full_text # <<>> =>
               LET a == feeds.full_text[1]
                   h == feeds.full_text[2]
                   base == IF 20 * a >= 100 * (h + 1) THEN 100
                           ELSE CHOOSE n \in 0..99 :
                                    n * (h + 1) <= 20 * a /\ 20 * a < (n + 1) * (h + 1)
               IN  /\ a > 3 * h => hds = (IF base + 20 > 100 THEN 100 ELSE base + 20)
                   /\ a <= 3 * h => hds = base
                   /\ a = 0 => hds = 0
        /\ \A i \in DOMAIN analyst_scores :
               analyst_scores[i].claim_verifiability = 100 * hds

\* the analyst has been scored on a text with 3 numeric anchors and 1 hype
\* word: floor(60 / 2) = 30, without bonus as 3 is not above 3
C22_Witness ==
    /\ feeds.full_text = <<3, 1>>
    /\ scored.by = "daily"
    /\ Len(analyst_scores) = 1
    /\ analyst_scores[1].claim_verifiability = 3000

(***************************************************************************)
(* The three batch runs: run_daily_update over the narratives it selected, *)
(* evaluate_analyst_calls over the calls it selected and                   *)
(* calculate_all_analyst_scores over the analysts, each as a selection     *)
(* followed by one step per entity.                                        *)
(***************************************************************************)
\* the rows of the table analysts
AnalystRows == <<1, 2>>

\* analysts = supabase.table('analysts').select('id, name')
StartAllAnalystScores ==
    /\ scoring.pc = "idle"
    /\ scoring' = [pc |-> "loop", todo |-> AnalystRows]
    /\ UNCHANGED <<analyst_scores, feeds, scored, now, engineVars, callVars,
                   storeVars, analystVars>>

\* one iteration of the loop of calculate_all_analyst_scores: the select of
\* the analyst's calls, then update_analyst_scores for the primary ticker if
\* there are calls.  The select is not in a try block of its own: when it
\* raises, the handler around the whole loop logs the error and the function
\* ends.
ScoreNextAnalyst ==
    /\ scoring.pc = "loop"
    /\ scoring.todo # <<>>
    /\ \E select \in {"ok", "error"} :
           IF select = "error"
           THEN /\ scoring' = [pc |-> "idle", todo |-> <<>>]
                /\ UNCHANGED <<analyst_scores, scored>>
           ELSE /\ scoring' = [scoring EXCEPT !.todo = Tail(@)]
                /\ IF CallsOf(Head(scoring.todo)) # <<>>
                   THEN SaveAnalystScores(Head(scoring.todo),
                                          PrimaryTicker(Head(scoring.todo)))
                   ELSE UNCHANGED <<analyst_scores, scored>>
    /\ UNCHANGED <<feeds, now, engineVars, callVars, storeVars, analystVars>>

FinishAllAnalystScores ==
    /\ scoring.pc = "loop"
    /\ scoring.todo = <<>>
    /\ scoring' = [scoring EXCEPT !.pc = "idle"]
    /\ UNCHANGED <<analyst_scores, feeds, scored, now, engineVars, callVars,
                   storeVars, analystVars>>

\* a pending call of an analyst, published on day 0
PendingCall(analyst_id, price_at_publish) ==
    [TrackedCall(analyst_id, "AAA", "PENDING", "null")
        EXCEPT !.price_at_publish = price_at_publish]

\* a narrative detected today in an article of sentiment 90, and once more
\* in an article of the given sentiment if there is one
DetectedTwice(second) ==
    <<SnapshotRow(90, FlatPrice)>>
        \o (IF second = NULL THEN <<>> ELSE <<SnapshotRow(second, FlatPrice)>>)

\* two narratives, two analysts with a pending call each, 120 days after the
\* calls were published
BatchesInit ==
    /\ now = MaxNow
    /\ final_close = [d \in PublishDays |-> 106]
    /\ analyst_calls \in {<<PendingCall(1, first), PendingCall(2, second)>> :
                             first \in PublishPrices, second \in PublishPrices}
    /\ evaluation = [r \in {1, 2} |-> [pc |-> "idle", todo |-> <<>>]]
    /\ narratives = <<UpsertRow("a", 90, FlatPrice), UpsertRow("b", 90, FlatPrice)>>
    /\ narrative_snapshots \in
           {<<DetectedTwice(first), DetectedTwice(second)>> :
               first \in ArticleSentiments \cup {NULL},
               second \in ArticleSentiments \cup {NULL}}
    /\ narrative_decay_metrics = <<>>
    /\ scraper = [pc |-> "idle", narrative_id |-> NULL, sentiment |-> 0,
                  todo |-> <<>>]
    /\ daily = [pc |-> "idle", narratives |-> <<>>, todo |-> <<>>]
    /\ analyst_scores = <<>>
    /\ feeds \in {NoMarketData, ArticleError}
    /\ scored = NotScored
    /\ scoring = [pc |-> "idle", todo |-> <<>>]
    /\ EngineIdle
    /\ AnalystsIdle

BatchesNext ==
    \/ StartDailyUpdate
    \/ update_narrative_metrics
    \/ FinishDailyUpdate
    \/ StartEvaluation(1, DefaultDaysAgo)
    \/ EvaluateCall(1)
    \/ FinishEvaluation(1)
    \/ StartAllAnalystScores
    \/ ScoreNextAnalyst
    \/ FinishAllAnalystScores

SpecBatches == BatchesInit /\ [][BatchesNext]_vars

\* C23: in each of the three batch runs, a step of the loop on one entity,
\* whatever becomes of that entity, leaves the entities after it still to do.
C23_BatchNotAborted ==
    [][/\ daily.pc = "loop" /\ daily.todo # <<>> /\ daily' # daily
           => daily'.pc = "loop" /\ daily'.todo = Tail(daily.todo)
       /\ \A r \in Runs :
              evaluation[r].pc = "loop" /\ evaluation[r].todo # <<>>
                      /\ evaluation'[r] # evaluation[r]
                  => /\ evaluation'[r].pc = "loop"
                     /\ evaluation'[r].todo = Tail(evaluation[r].todo)
       /\ scoring.pc = "loop" /\ scoring.todo # <<>> /\ scoring' # scoring
              => scoring'.pc = "loop" /\ scoring'.todo = Tail(scoring.todo)]_vars

\* the snapshots of the narrative after the step are those before it with
\* sentiment_decay_pct set to (initial_sentiment - sentiment) /
\* initial_sentiment x 100, to the two places the column is rounded to
Backfilled(id) ==
    /\ Len(narrative_snapshots'[id]) = Len(narrative_snapshots[id])
    /\ \A i \in DOMAIN narrative_snapshots[id] :
           LET before == narrative_snapshots[id][i]
               after == narrative_snapshots'[id][i]
           IN  /\ after.snapshot_date = before.snapshot_date
               /\ after.sentiment = before.sentiment
               /\ after.price = before.price
               /\ NearestHundredth(after.sentiment_decay_pct,
                      narratives[id].initial_sentiment - before.sentiment,
                      narratives[id].initial_sentiment)

DecayStep == scraper.pc = "decay" /\ scraper'.pc = "decay" /\ scraper' # scraper

\* the half-lives the two variants give the narrative, over the orders the
\* snapshots can be selected in: calculate_half_life of the engine the daily
\* update builds, and calculate_narrative_decay of the scraper (None for the
\* empty dict, which writes nothing)
EngineHalfLives(id) ==
    {calculate_half_life(SnapshotEngine(narratives[id],
         [i \in 1..Len(narrative_snapshots[id]) |->
             narrative_snapshots[id][order[i]]])) :
       order \in DateOrders(narrative_snapshots[id])}

ScraperHalfLives(id) ==
    {LET decay_metrics == calculate_narrative_decay(
             [i \in 1..Len(narrative_snapshots[id]) |->
                 narrative_snapshots[id][order[i]]])
     IN  IF decay_metrics = <<>> THEN None ELSE decay_metrics[1].half_life :
       order \in DateOrders(narrative_snapshots[id])}

\* the rows of a narrative in a narrative_decay_metrics table
MetricsRowsOf(table, id) == SelectSeq(table, LAMBDA row : row.narrative_id = id)

EvaluateWithHistory(r) == \E hist \in Closes : EvaluateCallOn(r, hist)

\* one or two calls published on day 0, as process_analyst_article stored
\* them, 120 days later
EvaluationInit ==
    /\ now = MaxNow
    /\ final_close \in [PublishDays -> Closes]
    /\ analyst_calls \in
           UNION {[1..n -> {NewCall(0, sentiment_score, current_price) :
                               sentiment_score \in SentimentScores,
                               current_price \in PublishPrices}] :
                    n \in 1..MaxCalls}
    /\ evaluation = [r \in Runs |-> [pc |-> "idle", todo |-> <<>>]]
    /\ EngineIdle
    /\ StoreIdle
    /\ ScoresIdle
    /\ AnalystsIdle

EvaluationNext ==
    \/ \E r \in Runs : StartEvaluation(r, DefaultDaysAgo)
    \/ \E r \in Runs : EvaluateWithHistory(r)
    \/ \E r \in Runs : FinishEvaluation(r)

\* a run that can start does start, and a run that started goes on to its end
SpecEvaluation ==
    /\ EvaluationInit
    /\ [][EvaluationNext]_vars
    /\ \A r \in Runs : /\ WF_vars(StartEvaluation(r, DefaultDaysAgo))
                       /\ WF_vars(EvaluateWithHistory(r))
                       /\ WF_vars(FinishEvaluation(r))

\* C26: a PENDING call published before the cutoff, with the price history of
\* its window available to every run, is eventually EVALUATED under repeated
\* runs, whatever price_at_publish was stored for it at detection.
C26_EventuallyEvaluated ==
    \A id \in 1..MaxCalls :
        (/\ id \in CallIds
         /\ analyst_calls[id].outcome_status = "PENDING"
         /\ analyst_calls[id].publish_datetime < now - DefaultDaysAgo)
            ~> (/\ id \in CallIds
                /\ analyst_calls[id].outcome_status = "EVALUATED")

\* C27: when neither a daily update nor a scraper write is in progress, the
\* status of every narrative row that has a decay metrics row equals the
\* status stored in that decay metrics row.
C27_StatusesAgree ==
    daily.pc = "idle" /\ scraper.pc = "idle" =>
        \A id \in NarrativeIds :
            \A i \in DOMAIN narrative_decay_metrics :
                narrative_decay_metrics[i].narrative_id = id =>
                    narrative_decay_metrics[i].status = narratives[id].status

(***************************************************************************)
(* process_analyst_article under concurrent workers (the daily scraper and *)
(* the historical scraper both call it, each in its own process).  The     *)
(* select and the insert of _get_or_create_analyst are two requests to the *)
(* store; other workers' requests come between them.                       *)
(***************************************************************************)
AnalystNames == {"Ann", "Bob"}
FirmNames == {"Firm", "Bank"}

\* workers with an article in hand
Busy == {w \in Workers : workers[w].pc # "idle"}

\* ids of the rows of analysts with the name and the firm
AnalystsNamed(name, firm) ==
    {i \in DOMAIN analysts :
        analysts[i].name = name /\ analysts[i].firm_name = firm}

\* process_analyst_article up to the call of _get_or_create_analyst: the
\* analyst named in the article
BeginArticle(w, name, firm) ==
    /\ workers[w].pc = "idle"
    /\ Len(analyst_calls) + Cardinality(Busy) < MaxCalls
    /\ workers' = [workers EXCEPT ![w] =
           [pc |-> "select", name |-> name, firm |-> firm, analyst_id |-> NULL]]
    /\ UNCHANGED <<analysts, now, engineVars, callVars, storeVars, scoreVars>>

\* an article is done: the worker is as it was before it
Idle == [pc |-> "idle", name |-> "null", firm |-> "null", analyst_id |-> NULL]

\* the select of _get_or_create_analyst: the id of a row found (result.data[0],
\* whichever row the store lists first), else on to the insert; an exception
\* returns None and the article is dropped
SelectAnalyst(w) ==
    /\ workers[w].pc = "select"
    /\ \E request \in {"ok", "error"} :
           IF request = "error"
           THEN workers' = [workers EXCEPT ![w] = Idle]
           ELSE IF AnalystsNamed(workers[w].name, workers[w].firm) = {}
           THEN workers' = [workers EXCEPT ![w].pc = "insert"]
           ELSE \E id \in AnalystsNamed(workers[w].name, workers[w].firm) :
                    workers' = [workers EXCEPT ![w].pc = "call",
                                               ![w].analyst_id = id]
    /\ UNCHANGED <<analysts, now, engineVars, callVars, storeVars, scoreVars>>

\* the insert of _get_or_create_analyst: a plain insert of a new row
InsertAnalyst(w) ==
    /\ workers[w].pc = "insert"
    /\ \E request \in {"ok", "error"} :
           IF request = "error"
           THEN /\ workers' = [workers EXCEPT ![w] = Idle]
                /\ UNCHANGED analysts
           ELSE /\ analysts' = Append(analysts,
                       [name |-> workers[w].name, firm_name |-> workers[w].firm])
                /\ workers' = [workers EXCEPT ![w].pc = "call",
                                              ![w].analyst_id = Len(analysts) + 1]
    /\ UNCHANGED <<now, engineVars, callVars, storeVars, scoreVars>>

\* the rest of process_analyst_article: the call of the analyst is inserted
SaveCall(w) ==
    /\ workers[w].pc = "call"
    /\ analyst_calls' = Append(analyst_calls,
           TrackedCall(workers[w].analyst_id, "AAA", "PENDING", "null"))
    /\ workers' = [workers EXCEPT ![w] = Idle]
    /\ UNCHANGED <<analysts, now, final_close, evaluation, engineVars, storeVars,
                   scoreVars>>

AnalystsInit ==
    /\ now = 0
    /\ EngineIdle
    /\ CallsIdle
    /\ StoreIdle
    /\ ScoresIdle
    /\ AnalystsIdle

AnalystsNext ==
    \/ \E w \in Workers, name \in AnalystNames, firm \in FirmNames :
           BeginArticle(w, name, firm)
    \/ \E w \in Workers : SelectAnalyst(w)
    \/ \E w \in Workers : InsertAnalyst(w)
    \/ \E w \in Workers : SaveCall(w)

SpecAnalysts == AnalystsInit /\ [][AnalystsNext]_vars

\* C28: in every state, no two rows of the table analysts have the same name
\* and the same firm.
C28_OneAnalystPerNameFirm ==
    \A i, j \in DOMAIN analysts :
        analysts[i].name = analysts[j].name
                /\ analysts[i].firm_name = analysts[j].firm_name
            => i = j

\* the sentiment the claim gives a price move from at to later: BULLISH above
\* +5%, BEARISH below -5%, NEUTRAL between the two, the bounds included
SentimentOfMove(at, later) ==
    IF 100 * (later - at) > 5 * at THEN "BULLISH"
    ELSE IF 100 * (later - at) < -5 * at THEN "BEARISH"
    ELSE "NEUTRAL"

\* C29: the directional rule partitions the outcomes.  Whenever
\* evaluate_analyst_calls evaluates a call, exactly one of the sentiments
\* BULLISH, BEARISH and NEUTRAL would be marked correct for the percent change
\* it computed (BULLISH when the change is > 5, BEARISH when it is < -5,
\* NEUTRAL when it is between -5 and 5), and the call is marked correct exactly
\* when its sentiment is that one.
C29_RulePartitions ==
    [][\A id \in CallIds :
          analyst_calls'[id] # analyst_calls[id] =>
              LET row == analyst_calls'[id]
                  at == row.price_at_publish
                  later == row.price_90d_later
              IN  /\ {s \in {"BULLISH", "BEARISH", "NEUTRAL"} :
                         DirectionalCorrect(s, at, later)}
                         = {SentimentOfMove(at, later)}
                  /\ row.directional_correct = "true"
                         <=> row.sentiment = SentimentOfMove(at, later)]_vars

\* two calls evaluated on the same move of exactly -5%: the NEUTRAL one is
\* correct, the BEARISH one is not
C29_Witness ==
    \E i, j \in CallIds :
        /\ analyst_calls[i].outcome_status = "EVALUATED"
        /\ analyst_calls[i].sentiment = "BEARISH"
        /\ analyst_calls[i].price_at_publish = 100
        /\ analyst_calls[i].price_90d_later = 95
        /\ analyst_calls[i].directional_correct = "false"
        /\ analyst_calls[j].outcome_status = "EVALUATED"
        /\ analyst_calls[j].sentiment = "NEUTRAL"
        /\ analyst_calls[j].price_at_publish = 100
        /\ analyst_calls[j].price_90d_later = 95
        /\ analyst_calls[j].directional_correct = "true"

\* C30: whenever get_metrics reports the status EXHAUSTED, the predicted
\* exhaustion date it reports with it is never later than the genesis date: it
\* is the genesis date when the decay rate is > 0 and absent when the decay
\* rate is <= 0.
C30_ExhaustedNotLater ==
    (Returned /\ metrics[1].status = "EXHAUSTED") =>
        LET rate == metrics[1].decay_rate.v
            date == metrics[1].predicted_exhaustion_date
        IN  /\ date.ok => date.day <= engine.t0
            /\ rate > 0 => date = WholeDate(engine.t0)
            /\ rate <= 0 => date = NoDate

\* a history that fell below 20 after its genesis: EXHAUSTED, with the genesis
\* date as predicted exhaustion date, days before the latest datapoint
C30_Witness ==
    /\ Returned
    /\ metrics[1].status = "EXHAUSTED"
    /\ metrics[1].decay_rate.v > 0
    /\ metrics[1].predicted_exhaustion_date = WholeDate(engine.t0)
    /\ Last(engine.dates) > engine.t0
    /\ engine.s0 >= 20

=============================================================================
